---- MODULE Spec2Model ----
(***************************************************************************)
(* Model of the OFDM demodulator of dab-ofdm-rust                          *)
(*   crates/ofdm/src/ofdm_demodulator.rs   (state machine and DSP helpers) *)
(*   crates/ofdm/src/linear_bucket.rs      (LinearBucket)                  *)
(*   crates/ofdm/src/circular_bucket.rs    (CircularBucket)                *)
(*                                                                         *)
(* Numbers.  A complex sample is a pair <<re, im>> of integers.  The f32   *)
(* quantities of the demodulator are kept in fixed point:                  *)
(*   - L1 averages in units of 1/L1Scale,                                  *)
(*   - frequency offsets in units of 1/(FftBinUnits * nb_fft) of the       *)
(*     sample rate, so that one FFT bin is FftBinUnits,                    *)
(*   - rational settings as numerator / denominator pairs.                 *)
(* The results of the external FFT library (impulse responses, spectra)    *)
(* and of atan2 are inputs drawn from small sets.                          *)
(***************************************************************************)
EXTENDS Integers, Sequences, FiniteSets, TLC

(***************************************************************************)
(* Bounds of the model                                                     *)
(***************************************************************************)
\* longest buffer handed to one process call
MaxBufLen == 4
\* period of the input sample stream
StreamPeriod == 4
\* cap on total_frames_read
MaxFrames == 1
\* cap on total_frames_desync
MaxDesyncs == 1
\* cap on the number of registered subscribers
MaxSubscribers == 2
\* largest |delta| handed to update_fine_frequency_offset on its own
MaxDelta == 250
\* largest |re|, |im| of a DQPSK value handed to the soft-bit demapper on its own
MaxComponent == 3
\* capacity of the buckets exercised on their own
BucketCapacity == 3
\* longest slice or iterator handed to a bucket
MaxSrcLen == 4
\* number of distinct element values handed to a bucket
MaxValue == 2
\* most elements handed to the circular bucket between two resets
MaxPushed == 5
\* number of threads that share a Barrier
MaxThreads == 3
\* most calls one thread makes on the Barrier
MaxCalls == 1
\* largest argument handed to OfdmParameters::new on its own
MaxParam == 3

(***************************************************************************)
(* OfdmParameters (ofdm_parameters.rs)                                     *)
(***************************************************************************)
nb_symbols == 2
nb_null_period == 2
nb_symbol_period == 4
nb_fft == 3
nb_fft_data_carriers == 2
nb_input_samples == nb_null_period + nb_symbol_period * nb_symbols
nb_cyclic_prefix == nb_symbol_period - nb_fft
nb_dqpsk_symbols == nb_symbols - 1
nb_output_samples == nb_dqpsk_symbols * nb_fft_data_carriers
nb_output_bits == nb_output_samples * 2

(***************************************************************************)
(* OfdmDemodulatorSettings: the values the model runs with                 *)
(***************************************************************************)
\* null_power_update_beta = 1/2
null_power_update_beta_num == 1
null_power_update_beta_den == 2
null_power_total_samples == 2
null_power_decimation_factor == 2
\* null_power_threshold_start = 0.35, null_power_threshold_end = 0.75
null_power_threshold_start_pct == 35
null_power_threshold_end_pct == 75
\* fine_frequency_update_beta = 0.95
fine_frequency_update_beta_pct == 95
\* coarse_frequency_max_range = 0.7
coarse_frequency_max_range_pct == 70
\* coarse_frequency_slow_update_beta = 0.1
coarse_frequency_slow_update_beta_pct == 10
fine_time_impulse_peak_threshold_db == 20
\* fine_time_impulse_peak_distance_probability = 0.15
fine_time_impulse_peak_distance_probability_pct == 15

(***************************************************************************)
(* Fixed-point scales                                                      *)
(***************************************************************************)
L1Scale == 4
\* one FFT bin (1/nb_fft of the sample rate) in frequency units
FftBinUnits == 200
\* fft_bin_wrap = 0.5 * 1.01 of a bin
fft_bin_wrap == 101
\* 1.5 bins
large_offset_threshold == 300

(***************************************************************************)
(* Arithmetic helpers                                                      *)
(***************************************************************************)
Abs(x) == IF x < 0 THEN -x ELSE x
Min(a, b) == IF a < b THEN a ELSE b
Max(a, b) == IF a > b THEN a ELSE b
\* division truncated toward zero (f32 -> integer casts, f32 products)
TruncDiv(a, b) == IF a >= 0 THEN a \div b ELSE -((-a) \div b)
\* Rust's % on f32 and on signed integers: the sign follows the dividend
TruncRem(a, b) == IF a >= 0 THEN a % b ELSE -((-a) % b)
\* round half away from zero
RoundDiv(a, b) == IF a >= 0 THEN (2 * a + b) \div (2 * b) ELSE -((2 * (-a) + b) \div (2 * b))

RECURSIVE SumSeq(_)
SumSeq(s) == IF s = <<>> THEN 0 ELSE Head(s) + SumSeq(Tail(s))

\* s[from .. from+len) with 0-based from
Slice(s, from, len) == [j \in 1..len |-> s[from + j]]
\* a range start..start+length is valid on a slice of n elements
SpanInRange(start, length, n) == start + length <= n

(***************************************************************************)
(* Complex32                                                               *)
(***************************************************************************)
CZero == <<0, 0>>
CMul(a, b) == <<a[1] * b[1] - a[2] * b[2], a[1] * b[2] + a[2] * b[1]>>
CConj(a) == <<a[1], -a[2]>>
l1_norm(a) == Abs(a[1]) + Abs(a[2])
\* j^q for q in 0..3
QuarterTurn(q) == CASE q = 0 -> <<1, 0>> [] q = 1 -> <<0, 1>> [] q = 2 -> <<-1, 0>> [] OTHER -> <<0, -1>>

(***************************************************************************)
(* LinearBucket<T> (linear_bucket.rs): [data, length]; capacity is the     *)
(* length of data, which is allocated once and keeps stale elements.       *)
(***************************************************************************)
LinearBucket_new(capacity) == [data |-> [j \in 1..capacity |-> CZero], length |-> 0]
LinearBucket_capacity(b) == Len(b.data)
\* a bucket taken for full as soon as it holds an element
LinearBucket_is_full_when_nonempty(b) == b.length > 0
LinearBucket_is_full(b) == b.length = LinearBucket_capacity(b)
LinearBucket_reset(b) == [b EXCEPT !.length = 0]
\* iter(): the slice of valid data
LinearBucket_iter(b) == SubSeq(b.data, 1, b.length)

\* consume with the destination slice starting at 0 instead of at length
LinearBucket_consume_from_start(b, buf) ==
    LET remain == LinearBucket_capacity(b) - b.length
        total_read == Min(Len(buf), remain)
    IN [bucket |-> [data |-> [j \in 1..Len(b.data) |->
                                 IF j <= total_read THEN buf[j] ELSE b.data[j]],
                    length |-> b.length + total_read],
        total_read |-> total_read]

\* consume(buf): [bucket, total_read]
LinearBucket_consume(b, buf) ==
    LET remain == LinearBucket_capacity(b) - b.length
        total_read == Min(Len(buf), remain)
    IN [bucket |-> [data |-> [j \in 1..Len(b.data) |->
                                 IF j > b.length /\ j <= b.length + total_read
                                 THEN buf[j - b.length] ELSE b.data[j]],
                    length |-> b.length + total_read],
        total_read |-> total_read]

\* consume_from_iterator(iter): items is the sequence the iterator yields.
\* The loop never updates total_read, so the value returned is 0.
LinearBucket_consume_from_iterator(b, items) ==
    LET remain == LinearBucket_capacity(b) - b.length
        n == Min(Len(items), remain)
    IN [bucket |-> [data |-> [j \in 1..Len(b.data) |->
                                 IF j > b.length /\ j <= b.length + n
                                 THEN items[j - b.length] ELSE b.data[j]],
                    length |-> b.length + n],
        total_read |-> 0]

(***************************************************************************)
(* CircularBucket<T> (circular_bucket.rs): [data, index, length]           *)
(***************************************************************************)
CircularBucket_new(capacity) ==
    [data |-> [j \in 1..capacity |-> CZero], index |-> 0, length |-> 0]
CircularBucket_capacity(b) == Len(b.data)
CircularBucket_reset(b) == [b EXCEPT !.index = 0, !.length = 0]

\* the write loop of consume: data[index] = buf[i]; index = (index+1) % capacity
RECURSIVE CircularBucket_write(_, _, _)
CircularBucket_write(b, buf, i) ==
    IF i > Len(buf) THEN b
    ELSE CircularBucket_write(
             [b EXCEPT !.data[b.index + 1] = buf[i],
                       !.index = (b.index + 1) % CircularBucket_capacity(b)],
             buf, i + 1)

\* consume with the new length left unclamped
CircularBucket_consume_unclamped(b, buf, consume_all) ==
    LET written == CircularBucket_write(b, buf, 1)
    IN [bucket |-> [written EXCEPT !.length = b.length + Len(buf)],
        total_read |-> Len(buf)]

\* consume that stops when full whatever consume_all says
CircularBucket_consume_never_all(b, buf, consume_all) ==
    LET capacity == CircularBucket_capacity(b)
        total_read == Min(Len(buf), capacity - b.length)
        written == CircularBucket_write(b, SubSeq(buf, 1, total_read), 1)
    IN [bucket |-> [written EXCEPT !.length = Min(capacity, b.length + total_read)],
        total_read |-> total_read]

\* consume(buf, consume_all): [bucket, total_read]
CircularBucket_consume(b, buf, consume_all) ==
    LET capacity == CircularBucket_capacity(b)
        remain == capacity - b.length
        total_read == IF consume_all THEN Len(buf) ELSE Min(Len(buf), remain)
        written == CircularBucket_write(b, SubSeq(buf, 1, total_read), 1)
    IN [bucket |-> [written EXCEPT !.length = Min(capacity, b.length + total_read)],
        total_read |-> total_read]

\* iter(): `length` elements read from data starting at index, wrapping around
CircularBucket_iter(b) ==
    [j \in 1..b.length |-> b.data[((b.index + j - 1) % CircularBucket_capacity(b)) + 1]]

(***************************************************************************)
(* DSP helpers of ofdm_demodulator.rs                                      *)
(***************************************************************************)
\* buf.chunks_exact(n): the complete blocks of n samples, the remainder dropped
chunks_exact(buf, n) == [k \in 1..(Len(buf) \div n) |-> SubSeq(buf, (k - 1) * n + 1, k * n)]

\* calculate_l1_average, in units of 1/L1Scale
calculate_l1_average(block) ==
    (SumSeq([j \in 1..Len(block) |-> l1_norm(block[j])]) * L1Scale) \div Len(block)

\* Iterator::max_by with the comparator `if x > y {Greater} else {Less}` over a
\* non-empty sequence of <<key, value>>: the fold keeps the accumulated
\* element only when the comparator answers Greater for (accumulated, next).
RECURSIVE max_by_fold(_, _, _)
max_by_fold(items, acc, i) ==
    IF i > Len(items) THEN acc
    ELSE max_by_fold(items, IF acc[2] > items[i][2] THEN acc ELSE items[i], i + 1)
\* a search that keeps the first of several equal maxima
max_by_first(items) ==
    LET best == CHOOSE j \in 1..Len(items) :
                    /\ \A k \in 1..Len(items) : items[k][2] <= items[j][2]
                    /\ \A k \in 1..(j - 1) : items[k][2] < items[j][2]
    IN items[best]
max_by(items) == max_by_fold(items, items[1], 2)

\* apply_pll: sample i (0-based) is multiplied by exp(j*2*pi*i*f).  The
\* rotation angle i*f is taken to the nearest quarter turn, the rotations
\* that integer samples can represent.
apply_pll(x, freq_offset_normalised) ==
    [j \in 1..Len(x) |->
        LET q == RoundDiv(4 * (j - 1) * freq_offset_normalised, FftBinUnits * nb_fft)
        IN CMul(x[j], QuarterTurn(q % 4))]

\* the writes of a calculate_dqpsk whose second loop begins at the DC bin
dqpsk_writes_from_dc(fft_size, data_carriers) ==
    LET nb_data_half == data_carriers \div 2
    IN [k \in 1..(2 * nb_data_half) |->
           LET i == IF k <= nb_data_half THEN k - 1 ELSE k - 1 - nb_data_half
           IN IF k <= nb_data_half
              THEN [dqpsk_index |-> i, fft_index |-> fft_size - nb_data_half + i]
              ELSE [dqpsk_index |-> i + nb_data_half, fft_index |-> i]]

\* the two loops of calculate_dqpsk, in order: the index of y each
\* iteration writes and the fft bin it reads (both 0-based)
dqpsk_writes(fft_size, data_carriers) ==
    LET nb_data_half == data_carriers \div 2
    IN [k \in 1..(2 * nb_data_half) |->
           LET i == IF k <= nb_data_half THEN k - 1 ELSE k - 1 - nb_data_half
           IN IF k <= nb_data_half
              THEN [dqpsk_index |-> i, fft_index |-> fft_size - nb_data_half + i]
              ELSE [dqpsk_index |-> i + nb_data_half, fft_index |-> 1 + i]]

\* the assertions of calculate_dqpsk
calculate_dqpsk_asserts(fft_size, data_carriers, x0, x1, y) ==
    /\ Len(x0) = fft_size
    /\ Len(x1) = fft_size
    /\ Len(y) = data_carriers
    /\ fft_size >= data_carriers
    /\ data_carriers % 2 = 0

\* a calculate_dqpsk that multiplies the two bins without the conjugate
calculate_dqpsk_without_conj(fft_size, data_carriers, x0, x1, y) ==
    LET writes == dqpsk_writes(fft_size, data_carriers)
    IN [d \in 1..Len(y) |->
           LET writers == {k \in 1..Len(writes) : writes[k].dqpsk_index = d - 1}
           IN IF writers = {} THEN y[d]
              ELSE LET last == CHOOSE k \in writers : \A other \in writers : other <= k
                       fft_index == writes[last].fft_index
                   IN CMul(x0[fft_index + 1], x1[fft_index + 1])]

\* calculate_dqpsk(params, x0, x1, y): y after the writes of the two loops,
\* an element that no iteration writes keeping its value
calculate_dqpsk_into(fft_size, data_carriers, x0, x1, y) ==
    LET writes == dqpsk_writes(fft_size, data_carriers)
    IN [d \in 1..Len(y) |->
           LET writers == {k \in 1..Len(writes) : writes[k].dqpsk_index = d - 1}
           IN IF writers = {} THEN y[d]
              ELSE LET last == CHOOSE k \in writers : \A other \in writers : other <= k
                       fft_index == writes[last].fft_index
                   IN CMul(x0[fft_index + 1], CConj(x1[fft_index + 1]))]

\* calculate_dqpsk on the parameters of the demodulator: returns y
calculate_dqpsk(x0, x1) ==
    calculate_dqpsk_into(nb_fft, nb_fft_data_carriers, x0, x1,
                         [d \in 1..nb_fft_data_carriers |-> <<0, 0>>])

\* `as i8` on an f32: saturating, truncated toward zero
cast_i8(num, den) ==
    LET t == TruncDiv(num, den)
    IN IF t > 127 THEN 127 ELSE IF t < -128 THEN -128 ELSE t

\* quantise_to_soft_bit with 128 as the full-scale value
quantise_to_soft_bit_128(num, den) ==
    IF den = 0 THEN 0 ELSE cast_i8(-num * 128, den)

\* quantise_to_soft_bit(x) for x = num/den; x is NaN (0/0) when den = 0 and
\* NaN casts to 0
quantise_to_soft_bit(num, den) ==
    IF den = 0 THEN 0 ELSE cast_i8(-num * 127, den)

\* calculate_soft_bits(carrier_mapper, x, y): returns y
calculate_soft_bits(carrier_mapper, x) ==
    LET length == Len(carrier_mapper)
    IN [b \in 1..(2 * length) |->
           LET i == IF b <= length THEN b ELSE b - length
               vec == x[carrier_mapper[i] + 1]
               amplitude == Max(Abs(vec[1]), Abs(vec[2]))
           IN IF b <= length THEN quantise_to_soft_bit(vec[1], amplitude)
                             ELSE quantise_to_soft_bit(-vec[2], amplitude)]

\* Clause 3.15 of process_symbols: calculate_dqpsk over each pair of
\* consecutive symbols of the FFT buffer; the new data_dqpsk_buffer
differential_demodulate(fft_out) ==
    [d \in 1..nb_output_samples |->
        LET i == (d - 1) \div nb_fft_data_carriers
            x0 == Slice(fft_out, i * nb_fft, nb_fft)
            x1 == Slice(fft_out, (i + 1) * nb_fft, nb_fft)
        IN calculate_dqpsk(x0, x1)[((d - 1) % nb_fft_data_carriers) + 1]]

\* Clause 3.16 of process_symbols: calculate_soft_bits over each DQPSK
\* symbol; the new data_out_bits_buffer
demap_soft_bits(carrier_mapper, dqpsk) ==
    [b \in 1..nb_output_bits |->
        LET i == (b - 1) \div (2 * nb_fft_data_carriers)
            x == Slice(dqpsk, i * nb_fft_data_carriers, nb_fft_data_carriers)
        IN calculate_soft_bits(carrier_mapper, x)[((b - 1) % (2 * nb_fft_data_carriers)) + 1]]

(***************************************************************************)
(* State                                                                   *)
(***************************************************************************)
VARIABLES
    \* OfdmDemodulator
    state, coarse_frequency_is_enabled,
    total_frames_read, total_frames_desync,
    is_found_coarse_frequency_offset, coarse_frequency_offset,
    fine_frequency_offset, fine_time_offset,
    is_null_start_found, is_null_end_found, signal_l1_average,
    carrier_mapper_data,
    null_power_dip_buffer, null_prs_buffer, data_time_buffer,
    fine_time_impulse_response_buffer, coarse_frequency_impulse_response_buffer,
    data_fft_buffer, data_dqpsk_buffer, data_out_bits_buffer,
    bits_out_callbacks,
    \* the running process call: position, rest of the buffer (curr_buf)
    pc, curr_buf,
    \* the caller: the sample stream and the read position in it
    stream, stream_pos,
    \* observations: the last operation, its returned count, the length of the
    \* buffer of the current call, the samples consumed in it so far, the
    \* number of handlers in a row that consumed nothing, the samples consumed
    \* since process_symbols seeded null_prs_buffer (-1 before the first frame
    \* and after a desync), what each subscriber saw in the last frame, and how
    \* often each subscriber was invoked
    op, last_read, buf_len, total_consumed, zero_run, frame_consumed,
    callback_log, callback_count, subscribed_at,
    \* get_dab_ofdm_carrier_map: its arguments (total_fft and the table
    \* carrier_map), its locals and its position
    total_fft, carrier_map, carrier_map_index, pi_value, loop_index, map_pc,
    \* a LinearBucket and a CircularBucket exercised on their own
    linear_bucket, circular_bucket, pushed, bucket_call,
    \* Barrier<bool>: the value in the mutex `data`, the holder of that
    \* mutex, the flag in the RwLock `is_closed`, the writer of that lock,
    \* the threads asleep on the Condvar `on_change`; and for each thread
    \* the calls it still makes, its position, its current call, its results
    barrier_data, data_lock, is_closed, is_closed_lock, on_change,
    thread_program, thread_pc, thread_call, thread_results,
    \* a call of one of the parameter functions: the function, its
    \* argument and what it returned
    param_fn, param_input, param_result,
    \* a call of one of the peak searches of the synchronisation steps
    peak_fn, peak_input, peak_result,
    \* ofdm_demod (main.rs): the position of each thread, the chunks left in
    \* the input (each the number of frames its process call completes), the
    \* frames the running process call has still to hand to the callback, the
    \* number of frames handed to the callback so far, the frames for which
    \* the callback's set(true) returned Ok, the frame held by the
    \* intermediate buffer (0: none), the thread that holds the RwLock of the
    \* intermediate buffer, and the frames written to the output
    pipeline_pc, input_chunks, frames_pending, frames_delivered, frames_full,
    intermediate_buffer, intermediate_buffer_lock, output_file

demod_vars == <<state, coarse_frequency_is_enabled, total_frames_read, total_frames_desync,
                is_found_coarse_frequency_offset, coarse_frequency_offset,
                fine_frequency_offset, fine_time_offset,
                is_null_start_found, is_null_end_found, signal_l1_average,
                carrier_mapper_data,
                null_power_dip_buffer, null_prs_buffer, data_time_buffer,
                fine_time_impulse_response_buffer, coarse_frequency_impulse_response_buffer,
                data_fft_buffer, data_dqpsk_buffer, data_out_bits_buffer,
                bits_out_callbacks>>
call_vars == <<pc, curr_buf, stream, stream_pos>>
obs_vars == <<op, last_read, buf_len, total_consumed, zero_run, frame_consumed,
              callback_log, callback_count, subscribed_at>>
carrier_map_vars == <<total_fft, carrier_map, carrier_map_index, pi_value, loop_index, map_pc>>
bucket_vars == <<linear_bucket, circular_bucket, pushed, bucket_call>>
\* the variables of the code around the demodulator
barrier_vars == <<barrier_data, data_lock, is_closed, is_closed_lock, on_change,
                  thread_program, thread_pc, thread_call, thread_results>>
param_vars == <<param_fn, param_input, param_result>>
peak_vars == <<peak_fn, peak_input, peak_result>>
\* the threads of ofdm_demod
pipeline_vars == <<pipeline_pc, input_chunks, frames_pending, frames_delivered, frames_full,
                   intermediate_buffer, intermediate_buffer_lock, output_file>>
lib_vars == <<carrier_map_vars, bucket_vars, barrier_vars, param_vars, peak_vars, pipeline_vars>>
vars == <<demod_vars, call_vars, obs_vars, lib_vars>>

States == {"FindingNullPowerDip", "ReadingNullAndPrs", "RunningCoarseFrequencySynchronisation",
           "RunningFineTimeSync", "ReadingSymbols", "ProcessingSymbols"}

(***************************************************************************)
(* Inputs                                                                  *)
(***************************************************************************)
\* the input is a periodic stream, cut into process calls: a steady carrier,
\* or a carrier whose period begins with StreamPeriod \div 2 samples of silence
StreamPatterns ==
    { [j \in 1..StreamPeriod |-> IF j <= k THEN <<0, 0>> ELSE <<1, 0>>] : k \in {0, StreamPeriod \div 2} }
\* the next n samples of the stream
NextSamples(n) == [j \in 1..n |-> stream[((stream_pos + j - 1) % StreamPeriod) + 1]]

\* carrier maps handed to the constructor
CarrierMaps == {<<1, 0>>}
\* outcomes of the coarse-frequency correlation (dB per FFT-shifted bin)
CoarseImpulseResponses == {<<0, 60, 0>>, <<0, 60, 60>>, <<60, 0, 0>>}
\* outcomes of the fine-time correlation (dB per sample)
FineTimeImpulseResponses == {<<0, 60, 0>>, <<60, 0, 0>>, <<0, 0, 60>>, <<0, 0, 0>>}
\* mean cyclic-prefix phase error as a percentage of pi
PhaseErrors == {-100}
\* outcomes of the per-symbol FFTs (data_fft_buffer)
FftOutcomes ==
    { [j \in 1..(nb_symbols * nb_fft) |-> <<((j * a) % 5) - 2, ((j * j + a) % 3) - 1>>] : a \in {1} }


(***************************************************************************)
(* OfdmDemodulator::new                                                    *)
(***************************************************************************)
\* the two buffers whose capacity follows params.nb_null_period
InitNullBuckets(null_period) ==
    /\ null_power_dip_buffer = CircularBucket_new(null_period)
    /\ null_prs_buffer = LinearBucket_new(null_period + nb_symbol_period)

\* every other field, and the code around the demodulator before its first call
InitDemodulatorFields(carrier_mapper, is_coarse_enabled, samples) ==
    /\ state = "FindingNullPowerDip"
    /\ coarse_frequency_is_enabled = is_coarse_enabled
    /\ total_frames_read = 0
    /\ total_frames_desync = 0
    /\ is_found_coarse_frequency_offset = FALSE
    /\ coarse_frequency_offset = 0
    /\ fine_frequency_offset = 0
    /\ fine_time_offset = 0
    /\ is_null_start_found = FALSE
    /\ is_null_end_found = FALSE
    /\ signal_l1_average = 0
    /\ carrier_mapper_data = carrier_mapper
    /\ data_time_buffer = LinearBucket_new(nb_input_samples)
    /\ fine_time_impulse_response_buffer = [j \in 1..nb_fft |-> 0]
    /\ coarse_frequency_impulse_response_buffer = [j \in 1..nb_fft |-> 0]
    /\ data_fft_buffer = [j \in 1..(nb_symbols * nb_fft) |-> CZero]
    /\ data_dqpsk_buffer = [j \in 1..nb_output_samples |-> CZero]
    /\ data_out_bits_buffer = [j \in 1..nb_output_bits |-> 0]
    /\ bits_out_callbacks = <<>>
    /\ pc = "idle"
    /\ curr_buf = <<>>
    /\ stream = samples
    /\ stream_pos = 0
    /\ op = "none"
    /\ last_read = 0
    /\ buf_len = 0
    /\ total_consumed = 0
    /\ zero_run = 0
    /\ frame_consumed = -1
    /\ callback_log = <<>>
    /\ callback_count = [s \in 1..MaxSubscribers |-> 0]
    /\ subscribed_at = [s \in 1..MaxSubscribers |-> 0]

InitDemodulator(carrier_mapper, is_coarse_enabled, samples) ==
    /\ InitNullBuckets(nb_null_period)
    /\ InitDemodulatorFields(carrier_mapper, is_coarse_enabled, samples)

\* get_dab_ofdm_carrier_map is not running
InitCarrierMapIdle ==
    /\ total_fft = 0
    /\ carrier_map = <<>>
    /\ carrier_map_index = 0
    /\ pi_value = 0
    /\ loop_index = 0
    /\ map_pc = "idle"

\* a call of a bucket method: its arguments, the bucket before it, its result
BucketCall(name, buf, consume_all, before, total_read) ==
    [name |-> name, buf |-> buf, consume_all |-> consume_all,
     before |-> before, total_read |-> total_read]

InitBucketsIdle ==
    /\ linear_bucket = LinearBucket_new(0)
    /\ circular_bucket = CircularBucket_new(0)
    /\ pushed = <<>>
    /\ bucket_call = BucketCall("none", <<>>, FALSE, LinearBucket_new(0), 0)

Threads == 1..MaxThreads
\* no thread holds the lock
NoThread == 0
NoCall == [name |-> "none", arg |-> FALSE, closed_at_entry |-> FALSE,
           stored |-> FALSE, changed_closed |-> FALSE, slept |-> FALSE, result |-> "none"]

\* Barrier::new(initial_data), shared by threads that make the calls of programs
InitBarrier(initial_data, programs) ==
    /\ barrier_data = initial_data
    /\ data_lock = NoThread
    /\ is_closed = FALSE
    /\ is_closed_lock = NoThread
    /\ on_change = {}
    /\ thread_program = programs
    /\ thread_pc = [t \in Threads |-> "idle"]
    /\ thread_call = [t \in Threads |-> NoCall]
    /\ thread_results = [t \in Threads |-> <<>>]

InitBarrierIdle == InitBarrier(FALSE, [t \in Threads |-> <<>>])

\* no parameter function has been called with input
InitParameters(input) ==
    /\ param_fn = "none"
    /\ param_input = input
    /\ param_result = [panicked |-> FALSE]

InitParametersIdle == InitParameters([transmission_mode |-> "none"])

\* the pipeline of ofdm_demod reading input_file, a sequence of chunks each
\* given by the number of frames that its process call completes; its threads
\* share the barrier
InitPipeline(chunks) ==
    /\ pipeline_pc = [t \in Threads |-> "start"]
    /\ input_chunks = chunks
    /\ frames_pending = 0
    /\ frames_delivered = 0
    /\ frames_full = {}
    /\ intermediate_buffer = 0
    /\ intermediate_buffer_lock = NoThread
    /\ output_file = <<>>

\* ofdm_demod is not running
InitPipelineIdle == InitPipeline(<<>>)

\* no peak search is running
InitPeakSearchIdle ==
    /\ peak_fn = "none"
    /\ peak_input = [probability_pct |-> 0, i |-> 0, impulse |-> <<>>]
    /\ peak_result = [index |-> 0, value |-> 0, weak |-> FALSE]

\* the code around the demodulator is not running
InitLibraryIdle ==
    /\ InitCarrierMapIdle /\ InitBucketsIdle /\ InitBarrierIdle /\ InitParametersIdle
    /\ InitPeakSearchIdle
    /\ InitPipelineIdle

Init ==
    /\ \E carrier_mapper \in CarrierMaps, is_coarse_enabled \in BOOLEAN,
          samples \in StreamPatterns :
          InitDemodulator(carrier_mapper, is_coarse_enabled, samples)
    /\ InitLibraryIdle

(***************************************************************************)
(* subscribe_bits_out: between process calls, the next subscriber is       *)
(* appended to bits_out_callbacks                                          *)
(***************************************************************************)
subscribe_bits_out ==
    /\ UNCHANGED lib_vars
    /\ pc = "idle"
    /\ total_frames_read = 0
    /\ Len(bits_out_callbacks) < MaxSubscribers
    /\ LET s == Len(bits_out_callbacks) + 1
       IN /\ bits_out_callbacks' = Append(bits_out_callbacks, s)
          /\ subscribed_at' = [subscribed_at EXCEPT ![s] = total_frames_read]
    /\ op' = op
    /\ UNCHANGED <<state, coarse_frequency_is_enabled, total_frames_read, total_frames_desync,
                   is_found_coarse_frequency_offset, coarse_frequency_offset,
                   fine_frequency_offset, fine_time_offset,
                   is_null_start_found, is_null_end_found, signal_l1_average,
                   carrier_mapper_data,
                   null_power_dip_buffer, null_prs_buffer, data_time_buffer,
                   fine_time_impulse_response_buffer, coarse_frequency_impulse_response_buffer,
                   data_fft_buffer, data_dqpsk_buffer, data_out_bits_buffer>>
    /\ UNCHANGED call_vars
    /\ UNCHANGED <<last_read, buf_len, total_consumed, zero_run, frame_consumed,
                   callback_log, callback_count>>

(***************************************************************************)
(* update_signal_power_average(buf): the new signal_l1_average             *)
(***************************************************************************)
\* the update without the early return on an empty selection of blocks
update_signal_power_average_no_return(buf) ==
    LET blocks == chunks_exact(buf, null_power_total_samples)
        kept == { k \in 1..Len(blocks) : (k - 1) % null_power_decimation_factor = 0 }
        total_blocks == Cardinality(kept)
        l1_average == IF total_blocks = 0 THEN 0
                      ELSE SumSeq([k \in 1..Len(blocks) |->
                               IF k \in kept THEN calculate_l1_average(blocks[k]) ELSE 0])
                           \div total_blocks
    IN (null_power_update_beta_num * l1_average
        + (null_power_update_beta_den - null_power_update_beta_num) * signal_l1_average)
       \div null_power_update_beta_den

\* an update that measures every complete block
update_signal_power_average_every_block(buf) ==
    LET blocks == chunks_exact(buf, null_power_total_samples)
        total_blocks == Len(blocks)
        power_sum == SumSeq([k \in 1..Len(blocks) |-> calculate_l1_average(blocks[k])])
    IN IF total_blocks = 0 THEN signal_l1_average
       ELSE LET l1_average == power_sum \div total_blocks
            IN (null_power_update_beta_num * l1_average
                + (null_power_update_beta_den - null_power_update_beta_num) * signal_l1_average)
               \div null_power_update_beta_den

update_signal_power_average(buf) ==
    LET blocks == chunks_exact(buf, null_power_total_samples)
        kept == { k \in 1..Len(blocks) : (k - 1) % null_power_decimation_factor = 0 }
        total_blocks == Cardinality(kept)
        power_sum == SumSeq([k \in 1..Len(blocks) |->
                         IF k \in kept THEN calculate_l1_average(blocks[k]) ELSE 0])
    IN IF total_blocks = 0 THEN signal_l1_average
       ELSE LET l1_average == power_sum \div total_blocks
            IN (null_power_update_beta_num * l1_average
                + (null_power_update_beta_den - null_power_update_beta_num) * signal_l1_average)
               \div null_power_update_beta_den

(***************************************************************************)
(* process(buf): the entry of a call.  The signal power average is         *)
(* updated, then the loop dispatches one handler per step while curr_buf   *)
(* is not empty.                                                           *)
(***************************************************************************)
process_buffer(buf) ==
    /\ UNCHANGED lib_vars
    /\ pc = "idle"
    /\ signal_l1_average' = update_signal_power_average(buf)
    /\ curr_buf' = buf
    /\ buf_len' = Len(buf)
    /\ stream_pos' = (stream_pos + Len(buf)) % StreamPeriod
    /\ pc' = IF Len(buf) = 0 THEN "return" ELSE "loop"
    /\ op' = "process"
    /\ last_read' = 0
    /\ total_consumed' = 0
    /\ zero_run' = 0
    /\ UNCHANGED <<state, coarse_frequency_is_enabled, total_frames_read, total_frames_desync,
                   is_found_coarse_frequency_offset, coarse_frequency_offset,
                   fine_frequency_offset, fine_time_offset,
                   is_null_start_found, is_null_end_found,
                   carrier_mapper_data,
                   null_power_dip_buffer, null_prs_buffer, data_time_buffer,
                   fine_time_impulse_response_buffer, coarse_frequency_impulse_response_buffer,
                   data_fft_buffer, data_dqpsk_buffer, data_out_bits_buffer,
                   bits_out_callbacks>>
    /\ UNCHANGED <<stream, frame_consumed, callback_log, callback_count, subscribed_at>>

\* a process call on the next 0..MaxBufLen samples of the stream
process == \E n \in 0..MaxBufLen : process_buffer(NextSamples(n))

\* curr_buf = &curr_buf[total_read..] and the loop test, after handler `name`
\* returned total_read
advance(name, total_read) ==
    /\ curr_buf' = SubSeq(curr_buf, total_read + 1, Len(curr_buf))
    /\ pc' = IF total_read >= Len(curr_buf) THEN "return" ELSE "loop"
    /\ op' = name
    /\ last_read' = total_read
    /\ total_consumed' = total_consumed + total_read
    /\ zero_run' = IF total_read = 0 THEN Min(zero_run + 1, Cardinality(States) + 1) ELSE 0
    /\ frame_consumed' = IF name = "process_symbols" THEN 0
                         ELSE IF state' = "FindingNullPowerDip" \/ frame_consumed < 0 THEN -1
                         ELSE frame_consumed + total_read
    /\ UNCHANGED <<stream, stream_pos, buf_len>>

(***************************************************************************)
(* reset_from_desync                                                       *)
(***************************************************************************)
\* a reset that keeps the signal power average
reset_from_desync_keeps_average ==
    /\ state' = "FindingNullPowerDip"
    /\ null_prs_buffer' = LinearBucket_reset(null_prs_buffer)
    /\ null_power_dip_buffer' = null_power_dip_buffer
    /\ signal_l1_average' = signal_l1_average
    /\ is_found_coarse_frequency_offset' = FALSE
    /\ fine_frequency_offset' = 0
    /\ coarse_frequency_offset' = 0
    /\ fine_time_offset' = 0

reset_from_desync ==
    /\ state' = "FindingNullPowerDip"
    /\ null_prs_buffer' = LinearBucket_reset(null_prs_buffer)
    /\ null_power_dip_buffer' = null_power_dip_buffer
    /\ signal_l1_average' = 0
    /\ is_found_coarse_frequency_offset' = FALSE
    /\ fine_frequency_offset' = 0
    /\ coarse_frequency_offset' = 0
    /\ fine_time_offset' = 0

(***************************************************************************)
(* find_null_power_dip                                                     *)
(***************************************************************************)
\* the scan over the blocks of buf, from block i on:
\* [start, end, total_read] are is_null_start_found, is_null_end_found and
\* the samples covered so far
\* a scan that takes any block above the end threshold for the NULL end
RECURSIVE scan_blocks_without_start(_, _, _)
scan_blocks_without_start(blocks, i, acc) ==
    IF i > Len(blocks) THEN acc
    ELSE LET l1_average == calculate_l1_average(blocks[i])
             total_read == acc.total_read + null_power_total_samples
         IN IF l1_average * 100 > signal_l1_average * null_power_threshold_end_pct
            THEN [start |-> TRUE, end |-> TRUE, total_read |-> total_read]
            ELSE scan_blocks_without_start(blocks, i + 1,
                     [acc EXCEPT !.total_read = total_read])

RECURSIVE scan_blocks(_, _, _)
scan_blocks(blocks, i, acc) ==
    IF i > Len(blocks) THEN acc
    ELSE LET l1_average == calculate_l1_average(blocks[i])
             total_read == acc.total_read + null_power_total_samples
         IN IF acc.start
            THEN IF l1_average * 100 > signal_l1_average * null_power_threshold_end_pct
                 THEN [start |-> TRUE, end |-> TRUE, total_read |-> total_read]
                 ELSE scan_blocks(blocks, i + 1, [acc EXCEPT !.total_read = total_read])
            ELSE IF l1_average * 100 < signal_l1_average * null_power_threshold_start_pct
                 THEN scan_blocks(blocks, i + 1,
                                  [start |-> TRUE, end |-> FALSE, total_read |-> total_read])
                 ELSE scan_blocks(blocks, i + 1, [acc EXCEPT !.total_read = total_read])

\* what the handler returns when no NULL end was found, were it to return
\* the samples covered by the scan
null_not_found_read_scanned(buf, total_read) == total_read

\* what the handler returns when no NULL end was found: all of buf
null_not_found_read(buf, total_read) == Len(buf)

\* the ring left as it is after a detection
ring_after_detection_kept(ring) == ring
\* self.null_power_dip_buffer.reset() after a detection
ring_after_detection(ring) == CircularBucket_reset(ring)

\* the flags left as the scan set them after a detection
flags_after_detection_kept == [start |-> TRUE, end |-> TRUE]
\* is_null_start_found = false; is_null_end_found = false after a detection
flags_after_detection == [start |-> FALSE, end |-> FALSE]

find_null_power_dip ==
    /\ UNCHANGED lib_vars
    /\ pc = "loop"
    /\ state = "FindingNullPowerDip"
    /\ LET buf == curr_buf
           scan == scan_blocks(chunks_exact(buf, null_power_total_samples), 1,
                               [start |-> is_null_start_found, end |-> is_null_end_found,
                                total_read |-> 0])
       IN IF ~scan.end
          THEN /\ is_null_start_found' = scan.start
               /\ is_null_end_found' = scan.end
               /\ null_power_dip_buffer' =
                      CircularBucket_consume(null_power_dip_buffer, buf, TRUE).bucket
               /\ UNCHANGED <<null_prs_buffer, state>>
               /\ advance("find_null_power_dip", null_not_found_read(buf, scan.total_read))
          ELSE LET consumed_blocks == SubSeq(buf, 1, scan.total_read)
                   ring == CircularBucket_consume(null_power_dip_buffer, consumed_blocks, TRUE).bucket
               IN /\ null_prs_buffer' =
                         LinearBucket_consume_from_iterator(
                             LinearBucket_reset(null_prs_buffer), CircularBucket_iter(ring)).bucket
                  /\ is_null_start_found' = flags_after_detection.start
                  /\ is_null_end_found' = flags_after_detection.end
                  /\ null_power_dip_buffer' = ring_after_detection(ring)
                  /\ state' = "ReadingNullAndPrs"
                  /\ advance("find_null_power_dip", scan.total_read)
    /\ UNCHANGED <<coarse_frequency_is_enabled, total_frames_read, total_frames_desync,
                   is_found_coarse_frequency_offset, coarse_frequency_offset,
                   fine_frequency_offset, fine_time_offset, signal_l1_average,
                   carrier_mapper_data, data_time_buffer,
                   fine_time_impulse_response_buffer, coarse_frequency_impulse_response_buffer,
                   data_fft_buffer, data_dqpsk_buffer, data_out_bits_buffer,
                   bits_out_callbacks>>
    /\ UNCHANGED <<callback_log, callback_count, subscribed_at>>

(***************************************************************************)
(* read_null_prs                                                           *)
(***************************************************************************)
\* the state read_null_prs moves to when null_prs is full
read_null_prs_next_skips_coarse == "RunningFineTimeSync"
read_null_prs_next == "RunningCoarseFrequencySynchronisation"

read_null_prs ==
    /\ UNCHANGED lib_vars
    /\ pc = "loop"
    /\ state = "ReadingNullAndPrs"
    /\ LET r == LinearBucket_consume(null_prs_buffer, curr_buf)
       IN /\ null_prs_buffer' = r.bucket
          /\ state' = IF LinearBucket_is_full(r.bucket) THEN read_null_prs_next ELSE state
          /\ advance("read_null_prs", r.total_read)
    /\ UNCHANGED <<coarse_frequency_is_enabled, total_frames_read, total_frames_desync,
                   is_found_coarse_frequency_offset, coarse_frequency_offset,
                   fine_frequency_offset, fine_time_offset,
                   is_null_start_found, is_null_end_found, signal_l1_average,
                   carrier_mapper_data, null_power_dip_buffer, data_time_buffer,
                   fine_time_impulse_response_buffer, coarse_frequency_impulse_response_buffer,
                   data_fft_buffer, data_dqpsk_buffer, data_out_bits_buffer,
                   bits_out_callbacks>>
    /\ UNCHANGED <<callback_log, callback_count, subscribed_at>>

(***************************************************************************)
(* update_fine_frequency_offset(delta): the new fine_frequency_offset      *)
(***************************************************************************)
\* the update without the wrap
update_fine_frequency_offset_no_wrap(delta) == fine_frequency_offset + delta

update_fine_frequency_offset(delta) == TruncRem(fine_frequency_offset + delta, fft_bin_wrap)

(***************************************************************************)
(* run_coarse_frequency_synchronisation                                    *)
(***************************************************************************)
\* floor(0.5 * coarse_frequency_max_range * nb_fft)
max_carrier_offset_bins_of(fft_size, max_range_pct) == (max_range_pct * fft_size) \div 200

max_carrier_offset_bins == max_carrier_offset_bins_of(nb_fft, coarse_frequency_max_range_pct)

\* the offset of the strongest bin of the impulse response within the window
carrier_offset_bin(impulse) ==
    LET dc_bin == nb_fft \div 2
        M == max_carrier_offset_bins
        candidates == [c \in 1..(2 * M + 1) |->
                          LET offset == c - 1 - M
                          IN <<offset, impulse[offset + dc_bin + 1]>>]
    IN max_by(candidates)[1]

\* the correlation runs whatever the setting
is_coarse_correlation_run_always == TRUE
\* the test of self.settings.coarse_frequency_is_enabled: the correlation runs
is_coarse_correlation_run == coarse_frequency_is_enabled

\* an update that is exact only for a large offset
is_fast_update_when_large(delta_coarse_frequency_offset) ==
    Abs(delta_coarse_frequency_offset) > large_offset_threshold
\* is_fast_update = is_large_offset || !self.is_found_coarse_frequency_offset
is_fast_update(delta_coarse_frequency_offset) ==
    LET is_large_offset == Abs(delta_coarse_frequency_offset) > large_offset_threshold
    IN is_large_offset \/ ~is_found_coarse_frequency_offset

run_coarse_frequency_synchronisation ==
    /\ UNCHANGED lib_vars
    /\ pc = "loop"
    /\ state = "RunningCoarseFrequencySynchronisation"
    /\ IF ~is_coarse_correlation_run
       THEN /\ coarse_frequency_offset' = 0
            /\ UNCHANGED <<coarse_frequency_impulse_response_buffer,
                           is_found_coarse_frequency_offset, fine_frequency_offset>>
       ELSE \E impulse \in CoarseImpulseResponses :
              LET current_coarse_frequency_offset == (-carrier_offset_bin(impulse)) * FftBinUnits
                  delta_coarse_frequency_offset ==
                      current_coarse_frequency_offset - coarse_frequency_offset
                  delta == IF is_fast_update(delta_coarse_frequency_offset)
                           THEN delta_coarse_frequency_offset
                           ELSE TruncDiv(coarse_frequency_slow_update_beta_pct
                                         * delta_coarse_frequency_offset, 100)
              IN /\ coarse_frequency_impulse_response_buffer' = impulse
                 /\ is_found_coarse_frequency_offset' = TRUE
                 /\ coarse_frequency_offset' = coarse_frequency_offset + delta
                 /\ fine_frequency_offset' = update_fine_frequency_offset(-delta)
    /\ state' = "RunningFineTimeSync"
    /\ advance("run_coarse_frequency_synchronisation", 0)
    /\ UNCHANGED <<coarse_frequency_is_enabled, total_frames_read, total_frames_desync,
                   fine_time_offset,
                   is_null_start_found, is_null_end_found, signal_l1_average,
                   carrier_mapper_data,
                   null_power_dip_buffer, null_prs_buffer, data_time_buffer,
                   fine_time_impulse_response_buffer,
                   data_fft_buffer, data_dqpsk_buffer, data_out_bits_buffer,
                   bits_out_callbacks>>
    /\ UNCHANGED <<callback_log, callback_count, subscribed_at>>

(***************************************************************************)
(* run_fine_time_sync                                                      *)
(***************************************************************************)
\* the denominator of the weighted peak values
peak_weight_den == 100 * nb_symbol_period
\* probability * peak_value for sample i (0-based), times peak_weight_den
\* a weight that decays by the setting itself
probability_by_setting(probability_pct, i) ==
    peak_weight_den - probability_pct * Abs(nb_cyclic_prefix - i)
\* probability = 1.0 - decay_weight * norm_distance for sample i (0-based),
\* times peak_weight_den, the setting given as a percentage
probability(probability_pct, i) ==
    LET distance_from_expectation == Abs(nb_cyclic_prefix - i)
        decay_weight_pct == 100 - probability_pct
    IN peak_weight_den - decay_weight_pct * distance_from_expectation

weighted_peak_value(impulse, i) ==
    probability(fine_time_impulse_peak_distance_probability_pct, i) * impulse[i + 1]

\* (impulse_peak_index, impulse_peak_value * peak_weight_den)
impulse_peak(impulse) ==
    max_by([j \in 1..Len(impulse) |-> <<j - 1, weighted_peak_value(impulse, j - 1)>>])

\* a height taken from the impulse response itself at the peak index
is_weak_peak_unweighted(impulse) ==
    impulse[impulse_peak(impulse)[1] + 1] * nb_fft - SumSeq(impulse)
        < fine_time_impulse_peak_threshold_db * nb_fft
\* impulse_peak_height < fine_time_impulse_peak_threshold_db, where
\* impulse_peak_height = impulse_peak_value - impulse_sum / nb_fft
is_weak_peak(impulse) ==
    impulse_peak(impulse)[2] * nb_fft - SumSeq(impulse) * peak_weight_den
        < fine_time_impulse_peak_threshold_db * peak_weight_den * nb_fft

\* total_frames_desync after a desync
desync_count == total_frames_desync + 1

\* a PRS taken from the end of the NULL period whatever the offset
prs_start_index_unshifted(prs_start_offset) == Max(nb_null_period, 0)
\* prs_start_index = max(nb_null_period + prs_start_offset, 0)
prs_start_index_of(prs_start_offset) == Max(nb_null_period + prs_start_offset, 0)

\* a copy of one whole symbol period whatever the offset
prs_length_unshifted(prs_start_offset) == nb_symbol_period

\* prs_length: what is left of the PRS after the start of its cyclic prefix
prs_length_of(prs_start_offset) == Max(nb_symbol_period - prs_start_offset, 0)

run_fine_time_sync ==
    /\ UNCHANGED lib_vars
    /\ pc = "loop"
    /\ state = "RunningFineTimeSync"
    /\ \E impulse \in FineTimeImpulseResponses :
          /\ fine_time_impulse_response_buffer' = impulse
          /\ IF is_weak_peak(impulse)
             THEN /\ total_frames_desync < MaxDesyncs
                  /\ reset_from_desync
                  /\ total_frames_desync' = desync_count
                  /\ UNCHANGED data_time_buffer
                  /\ advance("run_fine_time_sync", 0)
             ELSE LET prs_start_offset == impulse_peak(impulse)[1] - nb_cyclic_prefix
                      prs_start_index == prs_start_index_of(prs_start_offset)
                      prs_length == prs_length_of(prs_start_offset)
                  IN IF SpanInRange(prs_start_index, prs_length, null_prs_buffer.length)
                     THEN /\ data_time_buffer' =
                                 LinearBucket_consume(
                                     LinearBucket_reset(data_time_buffer),
                                     Slice(LinearBucket_iter(null_prs_buffer),
                                           prs_start_index, prs_length)).bucket
                          /\ null_prs_buffer' = LinearBucket_reset(null_prs_buffer)
                          /\ fine_time_offset' = prs_start_offset
                          /\ state' = "ReadingSymbols"
                          /\ UNCHANGED <<total_frames_desync, null_power_dip_buffer,
                                         signal_l1_average, is_found_coarse_frequency_offset,
                                         fine_frequency_offset, coarse_frequency_offset>>
                          /\ advance("run_fine_time_sync", 0)
                     ELSE \* the slice index panics
                          /\ pc' = "panicked"
                          /\ op' = "run_fine_time_sync"
                          /\ UNCHANGED <<state, data_time_buffer, null_prs_buffer,
                                         fine_time_offset, total_frames_desync,
                                         null_power_dip_buffer, signal_l1_average,
                                         is_found_coarse_frequency_offset,
                                         fine_frequency_offset, coarse_frequency_offset,
                                         curr_buf, last_read, total_consumed, zero_run, frame_consumed,
                                         stream, stream_pos, buf_len>>
    /\ UNCHANGED <<coarse_frequency_is_enabled, total_frames_read,
                   is_null_start_found, is_null_end_found,
                   carrier_mapper_data,
                   coarse_frequency_impulse_response_buffer,
                   data_fft_buffer, data_dqpsk_buffer, data_out_bits_buffer,
                   bits_out_callbacks>>
    /\ UNCHANGED <<callback_log, callback_count, subscribed_at>>

(***************************************************************************)
(* read_symbols                                                            *)
(***************************************************************************)
read_symbols ==
    /\ UNCHANGED lib_vars
    /\ pc = "loop"
    /\ state = "ReadingSymbols"
    /\ LET r == LinearBucket_consume(data_time_buffer, curr_buf)
       IN /\ data_time_buffer' = r.bucket
          /\ state' = IF LinearBucket_is_full(r.bucket) THEN "ProcessingSymbols" ELSE state
          /\ advance("read_symbols", r.total_read)
    /\ UNCHANGED <<coarse_frequency_is_enabled, total_frames_read, total_frames_desync,
                   is_found_coarse_frequency_offset, coarse_frequency_offset,
                   fine_frequency_offset, fine_time_offset,
                   is_null_start_found, is_null_end_found, signal_l1_average,
                   carrier_mapper_data, null_power_dip_buffer, null_prs_buffer,
                   fine_time_impulse_response_buffer, coarse_frequency_impulse_response_buffer,
                   data_fft_buffer, data_dqpsk_buffer, data_out_bits_buffer,
                   bits_out_callbacks>>
    /\ UNCHANGED <<callback_log, callback_count, subscribed_at>>

(***************************************************************************)
(* process_symbols                                                         *)
(***************************************************************************)
\* what a subscriber called with `bits` observes of the demodulator when the
\* counter and the state are updated before the callbacks run
callback_observation_after_update(s, bits) ==
    [subscriber |-> s, bits |-> bits,
     total_frames_read |-> total_frames_read + 1, state |-> "ReadingNullAndPrs"]

\* what a subscriber called with `bits` observes of the demodulator: the
\* callbacks run before total_frames_read and state are assigned
callback_observation(s, bits) ==
    [subscriber |-> s, bits |-> bits,
     total_frames_read |-> total_frames_read, state |-> state]

\* the callbacks invoked, were only the first subscriber served
callbacks_invoked_first_only == SubSeq(bits_out_callbacks, 1, Min(1, Len(bits_out_callbacks)))
\* for callback in &mut self.bits_out_callbacks
callbacks_invoked == bits_out_callbacks

\* the frame count left as it is
frames_read_count_forgotten == total_frames_read
\* total_frames_read after a frame
frames_read_count == total_frames_read + 1

\* the state after a frame
process_symbols_next == "ReadingNullAndPrs"

\* the samples of the frame after the frequency rotation
null_symbol_samples_rotated(buffer) ==
    apply_pll(LinearBucket_iter(buffer), fine_frequency_offset + coarse_frequency_offset)
\* the samples the NULL symbol is copied from: data_time_buffer as read,
\* before apply_pll
null_symbol_samples(buffer) == LinearBucket_iter(buffer)

process_symbols ==
    /\ UNCHANGED lib_vars
    /\ pc = "loop"
    /\ state = "ProcessingSymbols"
    /\ total_frames_read < MaxFrames
    /\ LET null_symbol_offset == nb_symbols * nb_symbol_period
           null_symbol == Slice(null_symbol_samples(data_time_buffer),
                                null_symbol_offset, nb_null_period)
           net_frequency_offset == fine_frequency_offset + coarse_frequency_offset
           rotated == apply_pll(LinearBucket_iter(data_time_buffer), net_frequency_offset)
       IN /\ null_prs_buffer' =
                 LinearBucket_consume(LinearBucket_reset(null_prs_buffer), null_symbol).bucket
          /\ data_time_buffer' =
                 [data_time_buffer EXCEPT !.data =
                     rotated \o SubSeq(data_time_buffer.data, data_time_buffer.length + 1,
                                       Len(data_time_buffer.data))]
    /\ \E phase_pct \in PhaseErrors :
          LET fine_frequency_error == ((FftBinUnits \div 2) * phase_pct) \div 100
              delta == TruncDiv(-(fine_frequency_update_beta_pct * fine_frequency_error), 100)
          IN fine_frequency_offset' = update_fine_frequency_offset(delta)
    /\ \E fft_out \in FftOutcomes :
          LET dqpsk == differential_demodulate(fft_out)
              bits == demap_soft_bits(carrier_mapper_data, dqpsk)
          IN /\ data_fft_buffer' = fft_out
             /\ data_dqpsk_buffer' = dqpsk
             /\ data_out_bits_buffer' = bits
             /\ callback_log' = [c \in 1..Len(callbacks_invoked) |->
                                    callback_observation(callbacks_invoked[c], bits)]
             /\ callback_count' = [s \in 1..MaxSubscribers |->
                                      callback_count[s]
                                      + Cardinality({c \in 1..Len(callbacks_invoked) :
                                                        callbacks_invoked[c] = s})]
    /\ total_frames_read' = frames_read_count
    /\ state' = process_symbols_next
    /\ advance("process_symbols", 0)
    /\ UNCHANGED <<coarse_frequency_is_enabled, total_frames_desync,
                   is_found_coarse_frequency_offset, coarse_frequency_offset,
                   fine_time_offset,
                   is_null_start_found, is_null_end_found, signal_l1_average,
                   carrier_mapper_data, null_power_dip_buffer,
                   fine_time_impulse_response_buffer, coarse_frequency_impulse_response_buffer,
                   bits_out_callbacks>>
    /\ UNCHANGED subscribed_at

(***************************************************************************)
(* process returns: curr_buf is empty.  The observations of the call are   *)
(* dropped.                                                                *)
(***************************************************************************)
process_return ==
    /\ UNCHANGED lib_vars
    /\ pc = "return"
    /\ pc' = "idle"
    /\ op' = "none"
    /\ last_read' = 0
    /\ buf_len' = 0
    /\ total_consumed' = 0
    /\ zero_run' = 0
    /\ UNCHANGED demod_vars
    /\ UNCHANGED <<curr_buf, stream, stream_pos>>
    /\ UNCHANGED <<frame_consumed, callback_log, callback_count, subscribed_at>>

(***************************************************************************)
(* Specification                                                           *)
(***************************************************************************)
Next ==
    \/ subscribe_bits_out
    \/ process
    \/ process_return
    \/ find_null_power_dip
    \/ read_null_prs
    \/ run_coarse_frequency_synchronisation
    \/ run_fine_time_sync
    \/ read_symbols
    \/ process_symbols

Spec == Init /\ [][Next]_vars


(***************************************************************************)
(* update_fine_frequency_offset and reset_from_desync on their own: the    *)
(* demodulator as constructed, every delta up to MaxDelta                  *)
(***************************************************************************)
InitFineFrequency ==
    /\ \E carrier_mapper \in CarrierMaps :
          InitDemodulator(carrier_mapper, TRUE, [j \in 1..StreamPeriod |-> <<1, 0>>])
    /\ InitLibraryIdle

fine_frequency_update ==
    /\ UNCHANGED lib_vars
    /\ \E delta \in (-MaxDelta)..MaxDelta :
          fine_frequency_offset' = update_fine_frequency_offset(delta)
    /\ op' = "update_fine_frequency_offset"
    /\ UNCHANGED <<state, coarse_frequency_is_enabled, total_frames_read, total_frames_desync,
                   is_found_coarse_frequency_offset, coarse_frequency_offset, fine_time_offset,
                   is_null_start_found, is_null_end_found, signal_l1_average,
                   carrier_mapper_data,
                   null_power_dip_buffer, null_prs_buffer, data_time_buffer,
                   fine_time_impulse_response_buffer, coarse_frequency_impulse_response_buffer,
                   data_fft_buffer, data_dqpsk_buffer, data_out_bits_buffer,
                   bits_out_callbacks>>
    /\ UNCHANGED call_vars
    /\ UNCHANGED <<last_read, buf_len, total_consumed, zero_run, frame_consumed,
                   callback_log, callback_count, subscribed_at>>

fine_frequency_reset ==
    /\ UNCHANGED lib_vars
    /\ reset_from_desync
    /\ op' = "reset_from_desync"
    /\ UNCHANGED <<coarse_frequency_is_enabled, total_frames_read, total_frames_desync,
                   is_null_start_found, is_null_end_found,
                   carrier_mapper_data, data_time_buffer,
                   fine_time_impulse_response_buffer, coarse_frequency_impulse_response_buffer,
                   data_fft_buffer, data_dqpsk_buffer, data_out_bits_buffer,
                   bits_out_callbacks>>
    /\ UNCHANGED call_vars
    /\ UNCHANGED <<last_read, buf_len, total_consumed, zero_run, frame_consumed,
                   callback_log, callback_count, subscribed_at>>

NextFineFrequency ==
    \/ fine_frequency_update
    \/ fine_frequency_reset

SpecFineFrequency == InitFineFrequency /\ [][NextFineFrequency]_vars

(***************************************************************************)
(* The data demapper on its own, run once on a demodulator as constructed: *)
(* every carrier map with entries in range, every DQPSK buffer with        *)
(* components up to MaxComponent                                           *)
(***************************************************************************)
\* carrier maps of nb_fft_data_carriers entries, each an index of a carrier
IndexCarrierMaps == [1..nb_fft_data_carriers -> 0..(nb_fft_data_carriers - 1)]
\* the DQPSK values handed to the demapper
DqpskValues == ((-MaxComponent)..MaxComponent) \X ((-MaxComponent)..MaxComponent)

InitSoftBits ==
    /\ \E carrier_mapper \in IndexCarrierMaps :
          InitDemodulator(carrier_mapper, TRUE, [j \in 1..StreamPeriod |-> <<1, 0>>])
    /\ InitLibraryIdle

soft_bits_demap ==
    /\ UNCHANGED lib_vars
    /\ op = "none"
    /\ \E dqpsk \in [1..nb_output_samples -> DqpskValues] :
          /\ data_dqpsk_buffer' = dqpsk
          /\ data_out_bits_buffer' = demap_soft_bits(carrier_mapper_data, dqpsk)
    /\ op' = "calculate_soft_bits"
    /\ UNCHANGED <<state, coarse_frequency_is_enabled, total_frames_read, total_frames_desync,
                   is_found_coarse_frequency_offset, coarse_frequency_offset,
                   fine_frequency_offset, fine_time_offset,
                   is_null_start_found, is_null_end_found, signal_l1_average,
                   carrier_mapper_data,
                   null_power_dip_buffer, null_prs_buffer, data_time_buffer,
                   fine_time_impulse_response_buffer, coarse_frequency_impulse_response_buffer,
                   data_fft_buffer, bits_out_callbacks>>
    /\ UNCHANGED call_vars
    /\ UNCHANGED <<last_read, buf_len, total_consumed, zero_run, frame_consumed,
                   callback_log, callback_count, subscribed_at>>

NextSoftBits == soft_bits_demap

SpecSoftBits == InitSoftBits /\ [][NextSoftBits]_vars

(***************************************************************************)
(* Properties                                                              *)
(***************************************************************************)
\* a handler is about to run
HandlerStep == pc = "loop"

\* the transitions of the demodulator state
Edges ==
    { <<"FindingNullPowerDip", "ReadingNullAndPrs">>,
      <<"ReadingNullAndPrs", "RunningCoarseFrequencySynchronisation">>,
      <<"RunningCoarseFrequencySynchronisation", "RunningFineTimeSync">>,
      <<"RunningFineTimeSync", "ReadingSymbols">>,
      <<"RunningFineTimeSync", "FindingNullPowerDip">>,
      <<"ReadingSymbols", "ProcessingSymbols">>,
      <<"ProcessingSymbols", "ReadingNullAndPrs">> }

\* C1: the state starts at FindingNullPowerDip and every change of state
\* follows one of the seven edges of the state machine.
StateFollowsEdges ==
    /\ state = "FindingNullPowerDip"
    /\ [][state' # state => <<state, state'>> \in Edges]_vars

\* a frame was demodulated after a desync, and the next frame is being read
StateFollowsEdgesReached ==
    /\ state = "ReadingNullAndPrs"
    /\ op = "process_symbols"
    /\ total_frames_desync = 1

\* C2: in every reachable state the length of null_prs, data_time and
\* null_power_dip is between 0 and the capacity, and each capacity is the
\* one the constructor allocated.
BuffersWithinCapacity ==
    /\ LinearBucket_capacity(null_prs_buffer) = nb_null_period + nb_symbol_period
    /\ LinearBucket_capacity(data_time_buffer) = nb_input_samples
    /\ CircularBucket_capacity(null_power_dip_buffer) = nb_null_period
    /\ 0 <= null_prs_buffer.length
    /\ null_prs_buffer.length <= nb_null_period + nb_symbol_period
    /\ 0 <= data_time_buffer.length
    /\ data_time_buffer.length <= nb_input_samples
    /\ 0 <= null_power_dip_buffer.length
    /\ null_power_dip_buffer.length <= nb_null_period

\* the ring has just taken more samples than it holds while data_time is full
BuffersWithinCapacityReached ==
    /\ op = "find_null_power_dip"
    /\ last_read > nb_null_period
    /\ null_power_dip_buffer.length = nb_null_period
    /\ LinearBucket_is_full(data_time_buffer)

\* C3: total_frames_read grows by exactly one in a step of process_symbols
\* and is unchanged in every other step; total_frames_desync grows by exactly
\* one in a step of run_fine_time_sync whose peak is weak and is unchanged in
\* every other step.
CountersCountFramesAndDesyncs ==
    [][ /\ total_frames_read' =
              IF HandlerStep /\ state = "ProcessingSymbols"
              THEN total_frames_read + 1 ELSE total_frames_read
        /\ total_frames_desync' =
              IF /\ HandlerStep
                 /\ state = "RunningFineTimeSync"
                 /\ is_weak_peak(fine_time_impulse_response_buffer')
              THEN total_frames_desync + 1 ELSE total_frames_desync ]_vars

\* a frame has been counted in a run that also counted a desync
CountersCountFramesAndDesyncsReached ==
    /\ op = "process_symbols"
    /\ total_frames_read = 1
    /\ total_frames_desync = 1

\* C4: a step of process_symbols calls every registered subscriber once, in
\* registration order, with the nb_output_bits soft bits of the frame; no
\* other step calls a subscriber; so each registered subscriber has been
\* called total_frames_read times.
SubscribersServedPerFrame ==
    /\ [](/\ \A s \in 1..MaxSubscribers :
                callback_count[s] = IF s <= Len(bits_out_callbacks) THEN total_frames_read ELSE 0
          /\ \A c \in 1..Len(callback_log) :
                /\ Len(callback_log[c].bits) = nb_output_bits
                /\ nb_output_bits = 2 * (nb_symbols - 1) * nb_fft_data_carriers)
    /\ [][ IF HandlerStep /\ state = "ProcessingSymbols"
           THEN /\ Len(callback_log') = Len(bits_out_callbacks)
                /\ \A c \in 1..Len(callback_log') :
                      /\ callback_log'[c].subscriber = bits_out_callbacks[c]
                      /\ callback_log'[c].bits = data_out_bits_buffer'
                /\ \A s \in 1..Len(bits_out_callbacks) :
                      callback_count'[s] = callback_count[s] + 1
           ELSE UNCHANGED <<callback_log, callback_count>> ]_vars

\* two subscribers were called with the bits of the frame
SubscribersServedPerFrameReached ==
    /\ op = "process_symbols"
    /\ Len(bits_out_callbacks) = 2
    /\ Len(callback_log) = 2
    /\ callback_log[1].subscriber = 1
    /\ callback_log[2].subscriber = 2
    /\ callback_count[2] = 1

\* C5: what the subscribers of the k-th frame observed is total_frames_read
\* = k - 1 and state = ProcessingSymbols: they run before the counter and the
\* state are assigned.
CallbacksRunBeforeCounter ==
    \A c \in 1..Len(callback_log) :
        /\ callback_log[c].total_frames_read = total_frames_read - 1
        /\ callback_log[c].state = "ProcessingSymbols"

\* the first frame's subscriber saw a count of 0, and the count is now 1
CallbacksRunBeforeCounterReached ==
    /\ Len(callback_log) >= 1
    /\ callback_log[1].total_frames_read = 0
    /\ total_frames_read = 1
    /\ state = "ReadingNullAndPrs"

\* C6: a process call returns and consumes its buffer exactly.  The loop
\* always has a handler to dispatch to and no handler fails, and every
\* handler step either shortens the rest of the buffer, or leaves it as it
\* is and changes the state, which at most two handlers in a row do: the
\* loop cannot run for ever.  What the handlers consumed never exceeds the
\* buffer, the rest of the buffer is what was not consumed, and at the
\* return the counts sum to the length of the buffer.
ProcessTerminatesAndConsumesAll ==
    /\ [](/\ total_consumed <= buf_len
          /\ pc \in {"loop", "return"} => Len(curr_buf) = buf_len - total_consumed
          /\ pc = "loop" => total_consumed < buf_len
          /\ pc = "return" => total_consumed = buf_len
          /\ pc \in {"idle", "loop", "return"}
          /\ state \in States
          /\ zero_run <= 2)
    /\ [][HandlerStep =>
            /\ last_read' > 0 \/ state' # state
            /\ total_consumed' = total_consumed + last_read'
            /\ IF last_read' > 0
               THEN Len(curr_buf') = Len(curr_buf) - last_read' /\ zero_run' = 0
               ELSE curr_buf' = curr_buf /\ zero_run' = zero_run + 1]_vars

\* a call of MaxBufLen samples has returned after a handler other than the
\* first took the last of them
ProcessTerminatesAndConsumesAllReached ==
    /\ pc = "return"
    /\ buf_len = MaxBufLen
    /\ total_consumed = MaxBufLen
    /\ op = "read_symbols"
    /\ last_read > 0
    /\ last_read < buf_len

\* C7: a process call with an empty buffer returns at once, and neither the
\* call nor its return changes any field of the demodulator or invokes a
\* subscriber.
EmptyProcessIsNoOp ==
    [][ /\ (pc = "idle" /\ op' = "process" /\ curr_buf' = <<>>) =>
              /\ pc' = "return"
              /\ UNCHANGED demod_vars
              /\ UNCHANGED <<callback_log, callback_count>>
        /\ pc = "return" =>
              /\ pc' = "idle"
              /\ UNCHANGED demod_vars
              /\ UNCHANGED <<callback_log, callback_count>> ]_vars

\* an empty call on a demodulator that has a power average, a frame and
\* samples of the next frame
EmptyProcessIsNoOpReached ==
    /\ op = "process"
    /\ pc = "return"
    /\ buf_len = 0
    /\ signal_l1_average > 0
    /\ total_frames_read = 1
    /\ null_prs_buffer.length > 0

\* C8: a step of run_fine_time_sync whose peak is weak does not fail; it ends
\* in FindingNullPowerDip with null_prs empty, the power average, the three
\* offsets and the coarse lock cleared and total_frames_desync one higher;
\* total_frames_read, the null_power_dip ring and the subscribers' calls are
\* as before.
DesyncResets ==
    [][ (/\ HandlerStep
         /\ state = "RunningFineTimeSync"
         /\ is_weak_peak(fine_time_impulse_response_buffer')) =>
            /\ pc' \in {"loop", "return"}
            /\ state' = "FindingNullPowerDip"
            /\ null_prs_buffer'.length = 0
            /\ signal_l1_average' = 0
            /\ coarse_frequency_offset' = 0
            /\ fine_frequency_offset' = 0
            /\ fine_time_offset' = 0
            /\ is_found_coarse_frequency_offset' = FALSE
            /\ total_frames_desync' = total_frames_desync + 1
            /\ UNCHANGED <<total_frames_read, null_power_dip_buffer,
                           callback_log, callback_count>> ]_vars

\* a desync after a frame, in a run with coarse synchronisation
DesyncResetsReached ==
    /\ op = "run_fine_time_sync"
    /\ is_weak_peak(fine_time_impulse_response_buffer)
    /\ state = "FindingNullPowerDip"
    /\ total_frames_desync = 1
    /\ total_frames_read = 1
    /\ coarse_frequency_is_enabled

\* C9: after every update of the fine frequency offset and after a desync
\* reset, |fine_frequency_offset| is at most fft_bin_wrap.
FineFrequencyWithinWrap == Abs(fine_frequency_offset) <= fft_bin_wrap

\* an update has left the offset one unit inside the wrap
FineFrequencyWithinWrapReached ==
    /\ op = "update_fine_frequency_offset"
    /\ fine_frequency_offset = -(fft_bin_wrap - 1)

\* C10: every soft bit the demapper writes is in -127..127.
SoftBitsInRange ==
    \A b \in 1..nb_output_bits :
        /\ data_out_bits_buffer[b] >= -127
        /\ data_out_bits_buffer[b] <= 127

\* the demapper has written -127 from a value with unequal components and 0
\* from a zero DQPSK value
SoftBitsInRangeReached ==
    /\ op = "calculate_soft_bits"
    /\ data_dqpsk_buffer[1] = <<0, 0>>
    /\ data_dqpsk_buffer[2] = <<MaxComponent, -1>>
    /\ \E b \in 1..nb_output_bits : data_out_bits_buffer[b] = -127
    /\ \E b \in 1..nb_output_bits : data_out_bits_buffer[b] = 0


\* C11: in a run with coarse_frequency_is_enabled false, coarse_frequency_offset
\* is 0 in every state, and a step of run_coarse_frequency_synchronisation
\* moves the state to RunningFineTimeSync and changes no other field of the
\* demodulator (fine_frequency_offset and the lock flag included).
CoarseDisabledKeepsZero ==
    /\ [](~coarse_frequency_is_enabled => coarse_frequency_offset = 0)
    /\ [][ (/\ ~coarse_frequency_is_enabled
            /\ HandlerStep
            /\ state = "RunningCoarseFrequencySynchronisation") =>
               /\ state' = "RunningFineTimeSync"
               /\ UNCHANGED <<coarse_frequency_is_enabled, total_frames_read,
                              total_frames_desync, is_found_coarse_frequency_offset,
                              coarse_frequency_offset, fine_frequency_offset,
                              fine_time_offset, is_null_start_found, is_null_end_found,
                              signal_l1_average, carrier_mapper_data,
                              null_power_dip_buffer, null_prs_buffer, data_time_buffer,
                              fine_time_impulse_response_buffer,
                              coarse_frequency_impulse_response_buffer,
                              data_fft_buffer, data_dqpsk_buffer, data_out_bits_buffer,
                              bits_out_callbacks>> ]_vars

\* the disabled coarse step has run after a frame and a desync, with a fine
\* frequency offset that is not zero
CoarseDisabledKeepsZeroReached ==
    /\ ~coarse_frequency_is_enabled
    /\ op = "run_coarse_frequency_synchronisation"
    /\ state = "RunningFineTimeSync"
    /\ total_frames_read = 1
    /\ total_frames_desync = 1
    /\ fine_frequency_offset # 0


(***************************************************************************)
(* get_dab_parameters (dab_parameters.rs)                                  *)
(***************************************************************************)
DabTransmissionModes == {"I", "II", "III", "IV"}

\* the table of get_dab_parameters
get_dab_parameters(transmission_mode) ==
    CASE transmission_mode = "I" ->
           [nb_symbols |-> 76, nb_null_period |-> 2656, nb_symbol_period |-> 2552,
            nb_fft |-> 2048, nb_fft_data_carriers |-> 1536,
            nb_fic_symbols |-> 3, nb_msc_symbols |-> 72,
            nb_fibs_in_fic |-> 12, nb_cifs_in_msc |-> 4]
      [] transmission_mode = "II" ->
           [nb_symbols |-> 76, nb_null_period |-> 664, nb_symbol_period |-> 638,
            nb_fft |-> 512, nb_fft_data_carriers |-> 384,
            nb_fic_symbols |-> 3, nb_msc_symbols |-> 72,
            nb_fibs_in_fic |-> 3, nb_cifs_in_msc |-> 1]
      [] transmission_mode = "III" ->
           [nb_symbols |-> 153, nb_null_period |-> 345, nb_symbol_period |-> 319,
            nb_fft |-> 256, nb_fft_data_carriers |-> 192,
            nb_fic_symbols |-> 8, nb_msc_symbols |-> 144,
            nb_fibs_in_fic |-> 4, nb_cifs_in_msc |-> 1]
      [] OTHER ->
           [nb_symbols |-> 76, nb_null_period |-> 1328, nb_symbol_period |-> 1276,
            nb_fft |-> 1024, nb_fft_data_carriers |-> 768,
            nb_fic_symbols |-> 3, nb_msc_symbols |-> 72,
            nb_fibs_in_fic |-> 6, nb_cifs_in_msc |-> 2]

(***************************************************************************)
(* get_dab_ofdm_carrier_map (dab_ofdm_carrier_map.rs), one action per      *)
(* iteration of its loop, called as main.rs calls it: with a table of      *)
(* nb_fft_data_carriers zeros and nb_fft of the transmission mode          *)
(***************************************************************************)
\* the four assertions on entry
carrier_map_asserts(total_carriers, fft) ==
    /\ total_carriers > 0
    /\ fft > 0
    /\ fft % 4 = 0
    /\ total_carriers <= fft

InitCarrierMap ==
    /\ InitDemodulator(<<1, 0>>, TRUE, [j \in 1..StreamPeriod |-> <<1, 0>>])
    /\ \E transmission_mode \in DabTransmissionModes :
          LET params == get_dab_parameters(transmission_mode)
          IN /\ total_fft = params.nb_fft
             /\ carrier_map = [j \in 1..params.nb_fft_data_carriers |-> 0]
             /\ map_pc = IF carrier_map_asserts(params.nb_fft_data_carriers, params.nb_fft)
                         THEN "loop" ELSE "panicked"
    /\ carrier_map_index = 0
    /\ pi_value = 0
    /\ loop_index = 0
    /\ InitBucketsIdle
    /\ InitBarrierIdle
    /\ InitParametersIdle
    /\ InitPeakSearchIdle
    /\ InitPipelineIdle

\* pi_value = (13*pi_value+k-1) % total_fft, with k = total_fft/4
pi_next(pi, fft) == (13 * pi + fft \div 4 - 1) % fft

\* the index of a carrier, with the bins above DC not moved down by one
carrier_out_index_keeps_dc(fft_index, fft_index_start, fft_index_dc) ==
    fft_index - fft_index_start
\* carrier_out_index: the DC bin is left out of the numbering
carrier_out_index(fft_index, fft_index_start, fft_index_dc) ==
    IF fft_index < fft_index_dc
    THEN fft_index - fft_index_start
    ELSE fft_index - fft_index_start - 1

\* one iteration of `for _ in 0..total_fft`
carrier_map_step ==
    /\ map_pc = "loop"
    /\ loop_index < total_fft
    /\ LET total_carriers == Len(carrier_map)
           fft_index_dc == total_fft \div 2
           fft_index_start == fft_index_dc - total_carriers \div 2
           fft_index_end == fft_index_dc + total_carriers \div 2
           fft_index == pi_value
           is_skipped == \/ fft_index < fft_index_start
                         \/ fft_index > fft_index_end
                         \/ fft_index = fft_index_dc
           is_last == loop_index + 1 = total_fft
       IN /\ pi_value' = pi_next(pi_value, total_fft)
          /\ loop_index' = loop_index + 1
          /\ IF is_skipped
             THEN /\ UNCHANGED <<carrier_map, carrier_map_index>>
                  /\ map_pc' = IF is_last THEN "done" ELSE "loop"
             ELSE IF carrier_map_index >= total_carriers
                  THEN \* the index is out of bounds
                       /\ UNCHANGED <<carrier_map, carrier_map_index>>
                       /\ map_pc' = "panicked"
                  ELSE /\ carrier_map' =
                              [carrier_map EXCEPT ![carrier_map_index + 1] =
                                  carrier_out_index(fft_index, fft_index_start, fft_index_dc)]
                       /\ carrier_map_index' = carrier_map_index + 1
                       /\ map_pc' = IF is_last THEN "done" ELSE "loop"
    /\ UNCHANGED total_fft
    /\ UNCHANGED <<pipeline_vars, demod_vars, call_vars, obs_vars, bucket_vars, barrier_vars, param_vars, peak_vars>>

NextCarrierMap == carrier_map_step

SpecCarrierMap == InitCarrierMap /\ [][NextCarrierMap]_vars

\* C12: for the four transmission modes get_dab_ofdm_carrier_map does not
\* fail, writes an entry in range that is different from every entry
\* written before, and at the end has written all nb_fft_data_carriers
\* entries: the table is a permutation of 0..nb_fft_data_carriers-1.
CarrierMapIsPermutation ==
    /\ map_pc \in {"loop", "done"}
    /\ carrier_map_index <= Len(carrier_map)
    /\ \A j \in 1..carrier_map_index :
          carrier_map[j] >= 0 /\ carrier_map[j] < Len(carrier_map)
    /\ Cardinality({carrier_map[j] : j \in 1..carrier_map_index}) = carrier_map_index
    /\ map_pc = "done" =>
          /\ carrier_map_index = Len(carrier_map)
          /\ {carrier_map[j] : j \in 1..Len(carrier_map)} = 0..(Len(carrier_map) - 1)

\* the table of transmission mode I is complete
CarrierMapIsPermutationReached ==
    /\ map_pc = "done"
    /\ total_fft = 2048
    /\ carrier_map_index = 1536
    /\ loop_index = 2048


(***************************************************************************)
(* LinearBucket and CircularBucket called on their own, with every slice   *)
(* of at most MaxSrcLen elements.  pushed is the sequence of elements the  *)
(* circular bucket has written since its last reset; bucket_call is the    *)
(* last call.                                                              *)
(***************************************************************************)
BucketValues == {<<v, 0>> : v \in 1..MaxValue}
BucketSources == UNION {[1..n -> BucketValues] : n \in 0..MaxSrcLen}

InitBuckets ==
    /\ InitDemodulator(<<1, 0>>, TRUE, [j \in 1..StreamPeriod |-> <<1, 0>>])
    /\ InitCarrierMapIdle
    /\ linear_bucket = LinearBucket_new(BucketCapacity)
    /\ circular_bucket = CircularBucket_new(BucketCapacity)
    /\ pushed = <<>>
    /\ bucket_call = BucketCall("new", <<>>, FALSE, LinearBucket_new(BucketCapacity), 0)
    /\ InitBarrierIdle
    /\ InitParametersIdle
    /\ InitPeakSearchIdle
    /\ InitPipelineIdle

bucket_unchanged ==
    UNCHANGED <<pipeline_vars, demod_vars, call_vars, obs_vars, carrier_map_vars, barrier_vars, param_vars, peak_vars>>

linear_consume ==
    \E buf \in BucketSources :
       LET r == LinearBucket_consume(linear_bucket, buf)
       IN /\ linear_bucket' = r.bucket
          /\ bucket_call' = BucketCall("consume", buf, FALSE, linear_bucket, r.total_read)
          /\ UNCHANGED <<circular_bucket, pushed>>
          /\ bucket_unchanged

linear_consume_from_iterator ==
    \E items \in BucketSources :
       LET r == LinearBucket_consume_from_iterator(linear_bucket, items)
       IN /\ linear_bucket' = r.bucket
          /\ bucket_call' = BucketCall("consume_from_iterator", items, FALSE,
                                       linear_bucket, r.total_read)
          /\ UNCHANGED <<circular_bucket, pushed>>
          /\ bucket_unchanged

linear_reset ==
    /\ linear_bucket' = LinearBucket_reset(linear_bucket)
    /\ bucket_call' = BucketCall("reset", <<>>, FALSE, linear_bucket, 0)
    /\ UNCHANGED <<circular_bucket, pushed>>
    /\ bucket_unchanged

NextLinearBucket ==
    \/ linear_consume
    \/ linear_consume_from_iterator
    \/ linear_reset

SpecLinearBucket == InitBuckets /\ [][NextLinearBucket]_vars

circular_consume ==
    \E buf \in BucketSources, consume_all \in BOOLEAN :
       LET r == CircularBucket_consume(circular_bucket, buf, consume_all)
       IN /\ Len(pushed) + Len(buf) <= MaxPushed
          /\ circular_bucket' = r.bucket
          /\ pushed' = pushed \o SubSeq(buf, 1, r.total_read)
          /\ bucket_call' = BucketCall("consume", buf, consume_all,
                                       circular_bucket, r.total_read)
          /\ UNCHANGED linear_bucket
          /\ bucket_unchanged

circular_reset ==
    /\ circular_bucket' = CircularBucket_reset(circular_bucket)
    /\ pushed' = <<>>
    /\ bucket_call' = BucketCall("reset", <<>>, FALSE, circular_bucket, 0)
    /\ UNCHANGED linear_bucket
    /\ bucket_unchanged

NextCircularBucket ==
    \/ circular_consume
    \/ circular_reset

SpecCircularBucket == InitBuckets /\ [][NextCircularBucket]_vars

\* the last n elements of a sequence
Newest(s, n) == SubSeq(s, Len(s) - n + 1, Len(s))

\* the `length` slots written last: those just before the write index
Retained(b) ==
    LET capacity == CircularBucket_capacity(b)
    IN [j \in 1..b.length |-> b.data[((b.index + capacity - b.length + j - 1) % capacity) + 1]]

\* C13: LinearBucket::consume(buf) copies n = min(capacity - length, |buf|)
\* elements, buf[0..n] in order to positions length..length+n, returns n,
\* adds n to length and leaves the elements stored before unchanged; on a
\* full bucket it copies nothing and returns 0.
LinearConsumeCopiesPrefix ==
    bucket_call.name = "consume" =>
       LET before == bucket_call.before
           buf == bucket_call.buf
           n == IF BucketCapacity - before.length < Len(buf)
                THEN BucketCapacity - before.length ELSE Len(buf)
       IN /\ before.length <= BucketCapacity
          /\ bucket_call.total_read = n
          /\ linear_bucket.length = before.length + n
          /\ \A j \in 1..n : linear_bucket.data[before.length + j] = buf[j]
          /\ \A j \in 1..BucketCapacity :
                (j <= before.length \/ j > before.length + n) =>
                   linear_bucket.data[j] = before.data[j]
          /\ before.length = BucketCapacity =>
                /\ bucket_call.total_read = 0
                /\ linear_bucket = before

\* a slice longer than the free space was offered to a partly filled
\* bucket, and then one more to the bucket now full
LinearConsumeCopiesPrefixReached ==
    /\ bucket_call.name = "consume"
    /\ bucket_call.before.length = BucketCapacity
    /\ Len(bucket_call.buf) = MaxSrcLen
    /\ bucket_call.total_read = 0
    /\ linear_bucket.data = <<<<1, 0>>, <<2, 0>>, <<1, 0>>>>

\* C14: CircularBucket::consume(buf, true) writes every element and returns
\* |buf|; then length = min(capacity, old length + |buf|) and the elements
\* retained are the newest `length` elements written since the last reset.
CircularConsumeAllKeepsNewest ==
    (bucket_call.name = "consume" /\ bucket_call.consume_all) =>
       /\ bucket_call.total_read = Len(bucket_call.buf)
       /\ circular_bucket.length =
             (IF BucketCapacity < bucket_call.before.length + Len(bucket_call.buf)
              THEN BucketCapacity
              ELSE bucket_call.before.length + Len(bucket_call.buf))
       /\ Len(pushed) >= circular_bucket.length
       /\ Retained(circular_bucket) = Newest(pushed, circular_bucket.length)

\* a slice longer than the capacity was written to a ring that was not empty
CircularConsumeAllKeepsNewestReached ==
    /\ bucket_call.name = "consume"
    /\ bucket_call.consume_all
    /\ Len(bucket_call.buf) = MaxSrcLen
    /\ bucket_call.before.length = 1
    /\ circular_bucket.length = BucketCapacity
    /\ Len(pushed) = MaxPushed
    /\ Retained(circular_bucket) = <<<<2, 0>>, <<1, 0>>, <<2, 0>>>>

\* C15: iterating a CircularBucket yields its `length` elements in the
\* order they were written, starting at the oldest one retained, when the
\* ring is full and when it is partly filled.
CircularIterInInsertionOrder ==
    CircularBucket_iter(circular_bucket) =
        Newest(pushed, circular_bucket.length)

\* one element in a new ring of three: iteration yields the default element
CircularIterStartsAtWriteIndex ==
    /\ bucket_call.name = "consume"
    /\ bucket_call.before = CircularBucket_new(BucketCapacity)
    /\ pushed = <<<<1, 0>>>>
    /\ circular_bucket.length = 1
    /\ CircularBucket_iter(circular_bucket) = <<CZero>>

\* C16: LinearBucket::consume_from_iterator returns the number of elements
\* it appended: min(capacity - old length, items of the iterator), which is
\* the increase of length.
ConsumeFromIteratorReturnsCount ==
    bucket_call.name = "consume_from_iterator" =>
       /\ bucket_call.total_read = linear_bucket.length - bucket_call.before.length
       /\ bucket_call.total_read =
             (IF BucketCapacity - bucket_call.before.length < Len(bucket_call.buf)
              THEN BucketCapacity - bucket_call.before.length
              ELSE Len(bucket_call.buf))

\* two elements appended to an empty bucket, 0 returned
ConsumeFromIteratorReturnsZero ==
    /\ bucket_call.name = "consume_from_iterator"
    /\ bucket_call.before.length = 0
    /\ Len(bucket_call.buf) = 2
    /\ linear_bucket.length = 2
    /\ bucket_call.total_read = 0


(***************************************************************************)
(* Barrier<bool> (barrier.rs).  Each thread runs its program, a sequence   *)
(* of calls [name, arg]: wait(|v| *v == arg), set(arg), close().  A call   *)
(* is a sequence of steps, one for each lock operation, each read of the   *)
(* flag, the evaluation of the predicate and each condition variable       *)
(* operation.  Mutex, RwLock and Condvar behave as std::sync specifies:    *)
(* lock() waits for the holder, read() waits for the writer, wait()        *)
(* releases the mutex and sleeps in one step and takes the mutex again     *)
(* when woken, notify_all() wakes the threads asleep at that moment, and   *)
(* a sleeping thread may also wake without a notification.                 *)
(***************************************************************************)
BarrierCalls ==
    {[name |-> "wait", arg |-> v] : v \in BOOLEAN}
       \cup {[name |-> "set", arg |-> v] : v \in BOOLEAN}
       \cup {[name |-> "close", arg |-> FALSE]}

BarrierPrograms == UNION {[1..n -> BarrierCalls] : n \in 0..MaxCalls}

barrier_unchanged ==
    UNCHANGED <<pipeline_vars, demod_vars, call_vars, obs_vars, carrier_map_vars, bucket_vars, param_vars, peak_vars>>

\* the thread goes to position p
barrier_goto(t, p) == thread_pc' = [thread_pc EXCEPT ![t] = p]

\* the call of thread t returns result
barrier_return(t, result) ==
    /\ thread_pc' = [thread_pc EXCEPT ![t] = "idle"]
    /\ thread_call' = [thread_call EXCEPT ![t].result = result]
    /\ thread_results' = [thread_results EXCEPT ![t] = Append(@, result)]

\* the thread makes the next call of its program
barrier_call(t) ==
    /\ thread_pc[t] = "idle"
    /\ thread_program[t] # <<>>
    /\ LET call == Head(thread_program[t])
       IN /\ thread_call' = [thread_call EXCEPT ![t] =
                                [name |-> call.name, arg |-> call.arg,
                                 closed_at_entry |-> is_closed,
                                 stored |-> FALSE, changed_closed |-> FALSE,
                                 slept |-> FALSE, result |-> "pending"]]
          /\ barrier_goto(t, CASE call.name = "wait" -> "wait_lock"
                               [] call.name = "set" -> "set_check_closed"
                               [] OTHER -> "close_lock")
    /\ thread_program' = [thread_program EXCEPT ![t] = Tail(@)]
    /\ UNCHANGED <<barrier_data, data_lock, is_closed, is_closed_lock, on_change,
                   thread_results>>
    /\ barrier_unchanged

\* on_change.notify_all(): every thread asleep goes on to take the mutex again
notify_all(pcs) == [u \in Threads |-> IF u \in on_change THEN "wait_reacquire" ELSE pcs[u]]

\* wait: let mut data = self.data.lock().unwrap()
barrier_wait_lock(t) ==
    /\ thread_pc[t] = "wait_lock"
    /\ data_lock = NoThread
    /\ data_lock' = t
    /\ barrier_goto(t, "wait_check_closed")
    /\ UNCHANGED <<barrier_data, is_closed, is_closed_lock, on_change,
                   thread_program, thread_call, thread_results>>
    /\ barrier_unchanged

\* wait: if *self.is_closed.read().unwrap() { return Err(Closed) }
barrier_wait_check_closed(t) ==
    /\ thread_pc[t] = "wait_check_closed"
    /\ is_closed_lock = NoThread
    /\ IF is_closed
       THEN /\ data_lock' = NoThread
            /\ barrier_return(t, "Closed")
       ELSE /\ barrier_goto(t, "wait_predicate")
            /\ UNCHANGED <<data_lock, thread_call, thread_results>>
    /\ UNCHANGED <<barrier_data, is_closed, is_closed_lock, on_change, thread_program>>
    /\ barrier_unchanged

\* wait: if predicate(&*data) { break } ... Ok(())
barrier_wait_predicate(t) ==
    /\ thread_pc[t] = "wait_predicate"
    /\ IF barrier_data = thread_call[t].arg
       THEN /\ data_lock' = NoThread
            /\ barrier_return(t, "Ok")
       ELSE /\ barrier_goto(t, "wait_condvar")
            /\ UNCHANGED <<data_lock, thread_call, thread_results>>
    /\ UNCHANGED <<barrier_data, is_closed, is_closed_lock, on_change, thread_program>>
    /\ barrier_unchanged

\* wait: self.on_change.wait(data): the mutex is released and the thread sleeps
barrier_wait_condvar(t) ==
    /\ thread_pc[t] = "wait_condvar"
    /\ data_lock' = NoThread
    /\ on_change' = on_change \cup {t}
    /\ thread_call' = [thread_call EXCEPT ![t].slept = TRUE]
    /\ barrier_goto(t, "wait_blocked")
    /\ UNCHANGED <<barrier_data, is_closed, is_closed_lock, thread_program, thread_results>>
    /\ barrier_unchanged

\* Condvar::wait may return without a notification
barrier_spurious_wakeup(t) ==
    /\ thread_pc[t] = "wait_blocked"
    /\ t \in on_change
    /\ on_change' = on_change \ {t}
    /\ barrier_goto(t, "wait_reacquire")
    /\ UNCHANGED <<barrier_data, data_lock, is_closed, is_closed_lock,
                   thread_program, thread_call, thread_results>>
    /\ barrier_unchanged

\* wait: the woken thread takes the mutex again: data = ...wait(data).unwrap()
barrier_wait_reacquire(t) ==
    /\ thread_pc[t] = "wait_reacquire"
    /\ data_lock = NoThread
    /\ data_lock' = t
    /\ barrier_goto(t, "wait_check_closed")
    /\ UNCHANGED <<barrier_data, is_closed, is_closed_lock, on_change,
                   thread_program, thread_call, thread_results>>
    /\ barrier_unchanged

\* set that does not look at is_closed
barrier_set_check_closed_ignored(t) ==
    /\ thread_pc[t] = "set_check_closed"
    /\ is_closed_lock = NoThread
    /\ barrier_goto(t, "set_lock")
    /\ UNCHANGED <<barrier_data, data_lock, is_closed, is_closed_lock, on_change,
                   thread_program, thread_call, thread_results>>
    /\ barrier_unchanged

\* set: if *self.is_closed.read().unwrap() { return Err(Closed) }
barrier_set_check_closed(t) ==
    /\ thread_pc[t] = "set_check_closed"
    /\ is_closed_lock = NoThread
    /\ IF is_closed
       THEN barrier_return(t, "Closed")
       ELSE /\ barrier_goto(t, "set_lock")
            /\ UNCHANGED <<thread_call, thread_results>>
    /\ UNCHANGED <<barrier_data, data_lock, is_closed, is_closed_lock, on_change,
                   thread_program>>
    /\ barrier_unchanged

\* set: let mut state = self.data.lock().unwrap()
barrier_set_lock(t) ==
    /\ thread_pc[t] = "set_lock"
    /\ data_lock = NoThread
    /\ data_lock' = t
    /\ barrier_goto(t, "set_store")
    /\ UNCHANGED <<barrier_data, is_closed, is_closed_lock, on_change,
                   thread_program, thread_call, thread_results>>
    /\ barrier_unchanged

\* set: *state = new_data
barrier_set_store(t) ==
    /\ thread_pc[t] = "set_store"
    /\ barrier_data' = thread_call[t].arg
    /\ thread_call' = [thread_call EXCEPT
                           ![t].stored = TRUE,
                           ![t].changed_closed = is_closed /\ barrier_data # thread_call[t].arg]
    /\ barrier_goto(t, "set_notify")
    /\ UNCHANGED <<data_lock, is_closed, is_closed_lock, on_change,
                   thread_program, thread_results>>
    /\ barrier_unchanged

\* set that wakes nobody
barrier_set_notify_nobody(t) ==
    /\ thread_pc[t] = "set_notify"
    /\ barrier_goto(t, "set_unlock")
    /\ UNCHANGED <<barrier_data, data_lock, is_closed, is_closed_lock, on_change,
                   thread_program, thread_call, thread_results>>
    /\ barrier_unchanged

\* set: self.on_change.notify_all()
barrier_set_notify(t) ==
    /\ thread_pc[t] = "set_notify"
    /\ on_change' = {}
    /\ thread_pc' = [notify_all(thread_pc) EXCEPT ![t] = "set_unlock"]
    /\ UNCHANGED <<barrier_data, data_lock, is_closed, is_closed_lock,
                   thread_program, thread_call, thread_results>>
    /\ barrier_unchanged

\* set: Ok(()), the guard of the mutex is dropped
barrier_set_unlock(t) ==
    /\ thread_pc[t] = "set_unlock"
    /\ data_lock' = NoThread
    /\ barrier_return(t, "Ok")
    /\ UNCHANGED <<barrier_data, is_closed, is_closed_lock, on_change, thread_program>>
    /\ barrier_unchanged

\* close: let mut is_closed = self.is_closed.write().unwrap()
barrier_close_lock(t) ==
    /\ thread_pc[t] = "close_lock"
    /\ is_closed_lock = NoThread
    /\ is_closed_lock' = t
    /\ barrier_goto(t, "close_check")
    /\ UNCHANGED <<barrier_data, data_lock, is_closed, on_change,
                   thread_program, thread_call, thread_results>>
    /\ barrier_unchanged

\* close: if *is_closed { return Err(Closed) }; *is_closed = true
barrier_close_check(t) ==
    /\ thread_pc[t] = "close_check"
    /\ IF is_closed
       THEN /\ is_closed_lock' = NoThread
            /\ barrier_return(t, "Closed")
            /\ UNCHANGED is_closed
       ELSE /\ is_closed' = TRUE
            /\ barrier_goto(t, "close_notify")
            /\ UNCHANGED <<is_closed_lock, thread_call, thread_results>>
    /\ UNCHANGED <<barrier_data, data_lock, on_change, thread_program>>
    /\ barrier_unchanged

\* close: self.on_change.notify_all()
barrier_close_notify(t) ==
    /\ thread_pc[t] = "close_notify"
    /\ on_change' = {}
    /\ thread_pc' = [notify_all(thread_pc) EXCEPT ![t] = "close_unlock"]
    /\ UNCHANGED <<barrier_data, data_lock, is_closed, is_closed_lock,
                   thread_program, thread_call, thread_results>>
    /\ barrier_unchanged

\* close: Ok(()), the write guard is dropped
barrier_close_unlock(t) ==
    /\ thread_pc[t] = "close_unlock"
    /\ is_closed_lock' = NoThread
    /\ barrier_return(t, "Ok")
    /\ UNCHANGED <<barrier_data, data_lock, is_closed, on_change, thread_program>>
    /\ barrier_unchanged

\* a step of thread t inside wait
barrier_wait(t) ==
    \/ barrier_wait_lock(t)
    \/ barrier_wait_check_closed(t)
    \/ barrier_wait_predicate(t)
    \/ barrier_wait_condvar(t)
    \/ barrier_wait_reacquire(t)

\* a step of thread t inside set
barrier_set(t) ==
    \/ barrier_set_check_closed(t)
    \/ barrier_set_lock(t)
    \/ barrier_set_store(t)
    \/ barrier_set_notify(t)
    \/ barrier_set_unlock(t)

\* a step of thread t inside close
barrier_close(t) ==
    \/ barrier_close_lock(t)
    \/ barrier_close_check(t)
    \/ barrier_close_notify(t)
    \/ barrier_close_unlock(t)

\* a step the scheduler owes to a runnable thread
thread_step(t) == barrier_call(t) \/ barrier_wait(t) \/ barrier_set(t) \/ barrier_close(t)

InitBarrierThreads ==
    /\ InitDemodulator(<<1, 0>>, TRUE, [j \in 1..StreamPeriod |-> <<1, 0>>])
    /\ InitCarrierMapIdle
    /\ InitBucketsIdle
    /\ InitParametersIdle
    /\ InitPeakSearchIdle
    /\ InitPipelineIdle
    /\ \E initial_data \in BOOLEAN, programs \in [Threads -> BarrierPrograms] :
          InitBarrier(initial_data, programs)

NextBarrier == \E t \in Threads : thread_step(t) \/ barrier_spurious_wakeup(t)

\* every thread that can take a step is scheduled eventually; a wake-up
\* without notification is never owed
SpecBarrier ==
    InitBarrierThreads /\ [][NextBarrier]_vars /\ \A t \in Threads : WF_vars(thread_step(t))


\* C17: once the barrier is closed it stays closed, and every call invoked
\* on it from then on returns Closed: a wait does not get past the check of
\* the flag, whatever its predicate says, so it never sleeps; a set does
\* not get to the mutex, so it stores nothing; a close finds the flag set.
\* Under fair scheduling each such call does return.
ClosedBarrierRefusesCalls ==
    /\ [](\A t \in Threads :
             thread_call[t].closed_at_entry =>
                /\ thread_call[t].result \in {"pending", "Closed"}
                /\ ~thread_call[t].stored
                /\ ~thread_call[t].slept
                /\ thread_pc[t] \in {"idle", "wait_lock", "wait_check_closed",
                                     "set_check_closed", "close_lock", "close_check"})
    /\ [][is_closed => is_closed']_vars
    /\ \A t \in Threads :
          (thread_call[t].closed_at_entry /\ thread_call[t].result = "pending")
             ~> (thread_call[t].result = "Closed")

\* after a close, a wait whose predicate holds and a set of the other value
\* have both returned Closed, and the value is as it was
ClosedBarrierRefusesCallsReached ==
    \E w, x, c \in Threads :
       /\ thread_call[c].name = "close" /\ thread_call[c].result = "Ok"
       /\ thread_call[w].name = "wait" /\ thread_call[w].closed_at_entry
       /\ thread_call[w].arg = barrier_data
       /\ thread_call[w].result = "Closed"
       /\ thread_call[x].name = "set" /\ thread_call[x].closed_at_entry
       /\ thread_call[x].arg # barrier_data
       /\ thread_call[x].result = "Closed"


\* C18: close wakes all waiters: a thread that is inside wait once close
\* has returned (it was inside when close was called, or entered later)
\* eventually returns from wait; no waiter stays blocked for ever.  This is
\* the weakest part of the claim: the result of the wait is left open.
CloseWakesAllWaiters ==
    \A t \in Threads :
       (/\ is_closed
        /\ is_closed_lock = NoThread
        /\ thread_call[t].name = "wait"
        /\ thread_call[t].result = "pending")
          ~> (thread_call[t].result # "pending")

\* close has returned Ok, every other thread has finished, and a thread
\* that entered wait before the close is asleep on the condition variable
WaiterAsleepAfterClose ==
    \E w, c \in Threads :
       /\ thread_call[c].name = "close" /\ thread_call[c].result = "Ok"
       /\ w \in on_change
       /\ thread_pc[w] = "wait_blocked"
       /\ ~thread_call[w].closed_at_entry
       /\ \A u \in Threads \ {w} : thread_pc[u] = "idle" /\ thread_program[u] = <<>>


(***************************************************************************)
(* The example of the Barrier documentation: the barrier starts at false,  *)
(* thread_0 waits for true and then sets false, thread_1 sets true and     *)
(* then waits for false.                                                   *)
(***************************************************************************)
thread_0_program == <<[name |-> "wait", arg |-> TRUE], [name |-> "set", arg |-> FALSE]>>
thread_1_program == <<[name |-> "set", arg |-> TRUE], [name |-> "wait", arg |-> FALSE]>>

InitBarrierHandshake ==
    /\ InitDemodulator(<<1, 0>>, TRUE, [j \in 1..StreamPeriod |-> <<1, 0>>])
    /\ InitCarrierMapIdle
    /\ InitBucketsIdle
    /\ InitParametersIdle
    /\ InitPeakSearchIdle
    /\ InitPipelineIdle
    /\ \E thread_0, thread_1 \in Threads :
          /\ thread_0 # thread_1
          /\ InitBarrier(FALSE, [t \in Threads |->
                                    IF t = thread_0 THEN thread_0_program
                                    ELSE IF t = thread_1 THEN thread_1_program
                                    ELSE <<>>])

\* a step the scheduler owes to a runnable thread of the example
handshake_step(t) == barrier_call(t) \/ barrier_wait(t) \/ barrier_set(t)

\* the steps that take the mutex
mutex_lock(t) == barrier_wait_lock(t) \/ barrier_wait_reacquire(t) \/ barrier_set_lock(t)

NextBarrierHandshake == \E t \in Threads : handshake_step(t) \/ barrier_spurious_wakeup(t)

\* every runnable thread is scheduled eventually, and a thread that finds
\* the mutex free again and again gets it eventually; a wake-up without
\* notification is never owed
SpecBarrierHandshake ==
    /\ InitBarrierHandshake
    /\ [][NextBarrierHandshake]_vars
    /\ \A t \in Threads : WF_vars(handshake_step(t)) /\ SF_vars(mutex_lock(t))

\* C19: in the handshake of the documentation example no call returns
\* Closed and both threads finish: every wait and set returns Ok, under
\* every interleaving; no wake-up is lost and no thread blocks for ever.
HandshakeTerminatesOk ==
    /\ [](\A t \in Threads : \A k \in 1..Len(thread_results[t]) :
               thread_results[t][k] = "Ok")
    /\ <>(\A t \in Threads :
             /\ thread_pc[t] = "idle"
             /\ thread_program[t] = <<>>
             /\ Len(thread_results[t]) \in {0, 2})

\* both threads have finished with Ok, Ok, and thread_1 slept in its wait
\* until thread_0 set the value back to false
HandshakeTerminatesOkReached ==
    \E t0, t1 \in Threads :
       /\ thread_results[t0] = <<"Ok", "Ok">> /\ thread_call[t0].name = "set"
       /\ thread_results[t1] = <<"Ok", "Ok">> /\ thread_call[t1].name = "wait"
       /\ thread_call[t1].slept
       /\ barrier_data = FALSE
       /\ \A t \in Threads : thread_pc[t] = "idle" /\ thread_program[t] = <<>>


(***************************************************************************)
(* OfdmParameters::new (ofdm_parameters.rs), get_dab_ofdm_parameters       *)
(* (dab_ofdm_parameters.rs), the assertions of get_dab_parameters          *)
(* (dab_parameters.rs) and get_dab_radio_parameters                        *)
(* (dab_radio_parameters.rs).  A failed assertion, a subtraction below 0   *)
(* and a division by 0 give a result that says panicked.                   *)
(***************************************************************************)
\* new with nb_dqpsk_symbols = nb_symbols
OfdmParameters_new_counts_first_symbol(p) ==
    IF ~(p.nb_symbols >= 2 /\ p.nb_symbol_period >= p.nb_fft
         /\ p.nb_fft >= p.nb_fft_data_carriers)
    THEN [panicked |-> TRUE]
    ELSE [panicked |-> FALSE, nb_symbols |-> p.nb_symbols,
          nb_null_period |-> p.nb_null_period,
          nb_symbol_period |-> p.nb_symbol_period,
          nb_fft |-> p.nb_fft,
          nb_fft_data_carriers |-> p.nb_fft_data_carriers,
          nb_cyclic_prefix |-> p.nb_symbol_period - p.nb_fft,
          nb_dqpsk_symbols |-> p.nb_symbols,
          nb_output_samples |-> p.nb_symbols * p.nb_fft_data_carriers,
          nb_output_bits |-> p.nb_symbols * p.nb_fft_data_carriers * 2,
          nb_input_samples |-> p.nb_null_period + p.nb_symbol_period * p.nb_symbols]

\* OfdmParameters::new; p holds its five arguments
OfdmParameters_new(p) ==
    IF ~(p.nb_symbols >= 2 /\ p.nb_symbol_period >= p.nb_fft
         /\ p.nb_fft >= p.nb_fft_data_carriers)
    THEN [panicked |-> TRUE]
    ELSE LET input_samples == p.nb_null_period + p.nb_symbol_period * p.nb_symbols
             cyclic_prefix == p.nb_symbol_period - p.nb_fft
             dqpsk_symbols == p.nb_symbols - 1
             output_samples == dqpsk_symbols * p.nb_fft_data_carriers
             output_bits == output_samples * 2
         IN [panicked |-> FALSE, nb_symbols |-> p.nb_symbols,
             nb_null_period |-> p.nb_null_period,
             nb_symbol_period |-> p.nb_symbol_period,
             nb_fft |-> p.nb_fft,
             nb_fft_data_carriers |-> p.nb_fft_data_carriers,
             nb_cyclic_prefix |-> cyclic_prefix,
             nb_dqpsk_symbols |-> dqpsk_symbols,
             nb_output_samples |-> output_samples,
             nb_output_bits |-> output_bits,
             nb_input_samples |-> input_samples]

\* the assertions at the end of get_dab_parameters
get_dab_parameters_asserts(params) ==
    /\ params.nb_symbols >= 2
    /\ params.nb_symbol_period >= params.nb_fft
    /\ params.nb_fft >= params.nb_fft_data_carriers
    /\ params.nb_symbols - 1 = params.nb_fic_symbols + params.nb_msc_symbols
    /\ params.nb_cifs_in_msc # 0
    /\ params.nb_fibs_in_fic % params.nb_cifs_in_msc = 0

\* get_dab_ofdm_parameters
get_dab_ofdm_parameters(transmission_mode) ==
    LET params == get_dab_parameters(transmission_mode)
    IN IF ~get_dab_parameters_asserts(params) THEN [panicked |-> TRUE]
       ELSE OfdmParameters_new([nb_symbols |-> params.nb_symbols,
                                nb_null_period |-> params.nb_null_period,
                                nb_symbol_period |-> params.nb_symbol_period,
                                nb_fft |-> params.nb_fft,
                                nb_fft_data_carriers |-> params.nb_fft_data_carriers])

\* get_dab_radio_parameters
get_dab_radio_parameters(transmission_mode) ==
    LET params == get_dab_parameters(transmission_mode)
        bits_per_carrier == 2
        symbols == params.nb_symbols - 1
        bits_per_symbol == params.nb_fft_data_carriers * bits_per_carrier
        bits_in_fic == params.nb_fic_symbols * bits_per_symbol
        bits_in_msc == params.nb_msc_symbols * bits_per_symbol
    IN IF \/ ~get_dab_parameters_asserts(params)
          \/ params.nb_fibs_in_fic = 0
          \/ params.nb_cifs_in_msc = 0
          \/ symbols # params.nb_fic_symbols + params.nb_msc_symbols
          \/ params.nb_fibs_in_fic % params.nb_cifs_in_msc # 0
       THEN [panicked |-> TRUE]
       ELSE [panicked |-> FALSE, nb_symbols |-> symbols,
             nb_fic_symbols |-> params.nb_fic_symbols,
             nb_msc_symbols |-> params.nb_msc_symbols,
             nb_fibs_in_fic |-> params.nb_fibs_in_fic,
             nb_cifs_in_msc |-> params.nb_cifs_in_msc,
             nb_bits_per_symbol |-> bits_per_symbol,
             nb_bits_per_frame |-> bits_per_symbol * symbols,
             nb_bits_in_fic |-> bits_in_fic,
             nb_bits_in_msc |-> bits_in_msc,
             nb_bits_per_fib |-> bits_in_fic \div params.nb_fibs_in_fic,
             nb_bits_per_fig |-> bits_in_fic \div params.nb_cifs_in_msc,
             nb_bits_per_cif |-> bits_in_msc \div params.nb_cifs_in_msc]

\* the arguments of OfdmParameters::new
OfdmParameterInputs ==
    [nb_symbols : 0..MaxParam, nb_null_period : 0..MaxParam,
     nb_symbol_period : 0..MaxParam, nb_fft : 0..MaxParam,
     nb_fft_data_carriers : 0..MaxParam]

\* the argument of the functions of a transmission mode
DabModeInputs == [transmission_mode : DabTransmissionModes]

InitParameterCalls ==
    /\ InitDemodulator(<<1, 0>>, TRUE, [j \in 1..StreamPeriod |-> <<1, 0>>])
    /\ InitCarrierMapIdle
    /\ InitBucketsIdle
    /\ InitBarrierIdle
    /\ InitPeakSearchIdle
    /\ InitPipelineIdle
    /\ \E input \in OfdmParameterInputs \cup DabModeInputs : InitParameters(input)

param_unchanged ==
    UNCHANGED <<pipeline_vars, demod_vars, call_vars, obs_vars, carrier_map_vars, bucket_vars, barrier_vars,
                peak_vars>>

ofdm_parameters_new ==
    /\ param_fn = "none"
    /\ param_input \in OfdmParameterInputs
    /\ param_fn' = "OfdmParameters::new"
    /\ param_result' = OfdmParameters_new(param_input)
    /\ UNCHANGED param_input
    /\ param_unchanged

dab_ofdm_parameters ==
    /\ param_fn = "none"
    /\ param_input \in DabModeInputs
    /\ param_fn' = "get_dab_ofdm_parameters"
    /\ param_result' = get_dab_ofdm_parameters(param_input.transmission_mode)
    /\ UNCHANGED param_input
    /\ param_unchanged

dab_radio_parameters ==
    /\ param_fn = "none"
    /\ param_input \in DabModeInputs
    /\ param_fn' = "get_dab_radio_parameters"
    /\ param_result' = get_dab_radio_parameters(param_input.transmission_mode)
    /\ UNCHANGED param_input
    /\ param_unchanged

NextParameters ==
    \/ ofdm_parameters_new
    \/ dab_ofdm_parameters
    \/ dab_radio_parameters

SpecParameters == InitParameterCalls /\ [][NextParameters]_vars

\* C20: for every input it accepts OfdmParameters::new returns
\* N_cp = N_symp - N_fft, N_dqpsk = N_sym - 1, N_out_samples = N_dqpsk * N_data,
\* N_out_bits = 2 * N_out_samples and N_in_samples = N_null + N_symp * N_sym;
\* for the DAB modes no assertion of get_dab_parameters, OfdmParameters::new
\* or get_dab_radio_parameters fails, and N_out_bits is 230400 in mode I
\* and 57600 in mode II.
DerivedParametersAsSpecified ==
    /\ (param_fn = "OfdmParameters::new" /\ ~param_result.panicked) =>
          /\ param_result.nb_cyclic_prefix =
                param_input.nb_symbol_period - param_input.nb_fft
          /\ param_result.nb_cyclic_prefix >= 0
          /\ param_result.nb_dqpsk_symbols = param_input.nb_symbols - 1
          /\ param_result.nb_dqpsk_symbols >= 1
          /\ param_result.nb_output_samples =
                param_result.nb_dqpsk_symbols * param_input.nb_fft_data_carriers
          /\ param_result.nb_output_bits = 2 * param_result.nb_output_samples
          /\ param_result.nb_input_samples =
                param_input.nb_null_period
                   + param_input.nb_symbol_period * param_input.nb_symbols
    /\ param_fn \in {"get_dab_ofdm_parameters", "get_dab_radio_parameters"} =>
          ~param_result.panicked
    /\ (param_fn = "get_dab_ofdm_parameters" /\ param_input.transmission_mode = "I") =>
          param_result.nb_output_bits = 230400
    /\ (param_fn = "get_dab_ofdm_parameters" /\ param_input.transmission_mode = "II") =>
          param_result.nb_output_bits = 57600

\* the OFDM parameters of transmission mode II have been derived
DerivedParametersAsSpecifiedReached ==
    /\ param_fn = "get_dab_ofdm_parameters"
    /\ param_input = [transmission_mode |-> "II"]
    /\ ~param_result.panicked
    /\ param_result.nb_fft_data_carriers = 384
    /\ param_result.nb_dqpsk_symbols = 75
    /\ param_result.nb_output_bits = 57600


(***************************************************************************)
(* Properties of the handlers                                              *)
(***************************************************************************)
\* the next step is find_null_power_dip(curr_buf)
FindNullStep == HandlerStep /\ state = "FindingNullPowerDip"

\* the complete blocks of the buffer handed to the handler
ScanBlocks == chunks_exact(curr_buf, null_power_total_samples)
\* the L1 average of a block is below threshold_start * signal_l1_average
BelowStart(block) ==
    calculate_l1_average(block) * 100 < signal_l1_average * null_power_threshold_start_pct
\* the L1 average of a block is above threshold_end * signal_l1_average
AboveEnd(block) ==
    calculate_l1_average(block) * 100 > signal_l1_average * null_power_threshold_end_pct

\* C21: find_null_power_dip either finds no NULL end, pushes all of buf into
\* the ring, returns |buf| and stays in FindingNullPowerDip; or finds it,
\* returns T, a positive multiple of null_power_total_samples with
\* T <= |buf|, and ends in ReadingNullAndPrs with both flags false, the
\* ring empty and at most N_null samples in null_prs.
NullDipReturnsAsSpecified ==
    [][FindNullStep =>
          \/ /\ state' = "FindingNullPowerDip"
             /\ last_read' = Len(curr_buf)
             /\ ~is_null_end_found'
             /\ null_power_dip_buffer'.length =
                   Min(nb_null_period, null_power_dip_buffer.length + Len(curr_buf))
             /\ Retained(null_power_dip_buffer') =
                   Newest(Retained(null_power_dip_buffer) \o curr_buf,
                          null_power_dip_buffer'.length)
             /\ null_prs_buffer' = null_prs_buffer
          \/ /\ state' = "ReadingNullAndPrs"
             /\ last_read' > 0
             /\ last_read' % null_power_total_samples = 0
             /\ last_read' <= Len(curr_buf)
             /\ ~is_null_start_found'
             /\ ~is_null_end_found'
             /\ null_power_dip_buffer'.length = 0
             /\ null_prs_buffer'.length <= nb_null_period]_vars

\* the NULL end was found in the first block of a buffer with a trailing
\* partial block, which is left for the next handler
NullDipReturnsAsSpecifiedReached ==
    /\ op = "find_null_power_dip"
    /\ state = "ReadingNullAndPrs"
    /\ last_read = null_power_total_samples
    /\ buf_len = null_power_total_samples + 1
    /\ Len(curr_buf) = 1
    /\ null_power_dip_buffer.length = 0
    /\ null_prs_buffer.length = nb_null_period

\* C22: find_null_power_dip leaves FindingNullPowerDip only at a block above
\* threshold_end * signal_l1_average that comes strictly after a block
\* below threshold_start * signal_l1_average, in this call or, through the
\* flag is_null_start_found, in an earlier one; the flag is set only by a
\* block below the start threshold and stays set until the NULL end is found.
NullEndFollowsNullStart ==
    /\ [][FindNullStep =>
             /\ state' = "ReadingNullAndPrs" =>
                   LET j == last_read' \div null_power_total_samples
                   IN /\ j \in 1..Len(ScanBlocks)
                      /\ AboveEnd(ScanBlocks[j])
                      /\ \/ is_null_start_found
                         \/ \E i \in 1..(j - 1) : BelowStart(ScanBlocks[i])
             /\ (~is_null_start_found /\ is_null_start_found') =>
                   \E i \in 1..Len(ScanBlocks) : BelowStart(ScanBlocks[i])
             /\ (is_null_start_found /\ state' = "FindingNullPowerDip") =>
                   is_null_start_found']_vars
    /\ [][~FindNullStep => is_null_start_found' = is_null_start_found]_vars
    /\ [](is_null_start_found => state = "FindingNullPowerDip")
    /\ [](~is_null_end_found)

\* the NULL start was found in an earlier process call and the NULL end in
\* the first block of this one
NullEndFollowsNullStartReached ==
    /\ op = "find_null_power_dip"
    /\ state = "ReadingNullAndPrs"
    /\ total_consumed = null_power_total_samples
    /\ last_read = null_power_total_samples
    /\ ~is_null_start_found
    /\ signal_l1_average > 0


(***************************************************************************)
(* The search for the NULL symbol of a demodulator whose NULL period is    *)
(* longer than the samples a first detection needs: the ring is partly     *)
(* filled when its content is copied to null_prs                           *)
(***************************************************************************)
\* params.nb_null_period of this demodulator
LongNullPeriod == 7

\* a stream that begins with the carrier, each period ending in silence
NullDipStreams ==
    { <<<<1, 0>>, <<0, 1>>, <<0, 0>>, <<0, 0>>>>,
      <<<<0, 1>>, <<1, 0>>, <<0, 0>>, <<0, 0>>>> }

InitNullDip ==
    /\ \E samples \in NullDipStreams :
          /\ InitNullBuckets(LongNullPeriod)
          /\ InitDemodulatorFields(<<1, 0>>, TRUE, samples)
    /\ InitLibraryIdle

\* process calls up to the detection of the NULL symbol
NextNullDip ==
    \/ process
    \/ process_return
    \/ find_null_power_dip

SpecNullDip == InitNullDip /\ [][NextNullDip]_vars

\* C23: when the NULL end is detected, null_prs holds the most recent
\* min(N_null, n) input samples up to the detection point, oldest first,
\* n being the samples pushed into the ring since its last reset or the
\* construction, also when n < N_null.
NullPrsHoldsNewestSamples ==
    [][(FindNullStep /\ state' = "ReadingNullAndPrs") =>
          LET pushed_samples == Retained(null_power_dip_buffer)
                                   \o SubSeq(curr_buf, 1, last_read')
              m == Min(CircularBucket_capacity(null_power_dip_buffer),
                       Len(pushed_samples))
          IN /\ null_prs_buffer'.length = m
             /\ LinearBucket_iter(null_prs_buffer') = Newest(pushed_samples, m)]_vars

\* a detection after six samples, found in the second block of its buffer:
\* null_prs holds six samples and begins with the slot of the ring that
\* was never written
NullPrsStartsAtWriteIndex ==
    /\ op = "find_null_power_dip"
    /\ state = "ReadingNullAndPrs"
    /\ buf_len = 4
    /\ last_read = 4
    /\ null_prs_buffer.length = 6
    /\ null_prs_buffer.length < LongNullPeriod
    /\ LinearBucket_iter(null_prs_buffer)[1] = CZero
    /\ LinearBucket_iter(null_prs_buffer)[2] # CZero


(***************************************************************************)
(* The peak searches of the coarse frequency and fine time steps, applied  *)
(* to every impulse response over a few levels, and the weight of the fine *)
(* time search for every setting                                           *)
(***************************************************************************)
\* values of the impulse responses (dB)
ImpulseLevels == {0, 44, 60, 200}
PeakImpulses == [1..nb_fft -> ImpulseLevels]
\* settings.fine_time_impulse_peak_distance_probability, as percentages
Probabilities == { 5 * k : k \in 0..20 }

InitPeakSearch ==
    /\ InitDemodulator(<<1, 0>>, TRUE, [j \in 1..StreamPeriod |-> <<1, 0>>])
    /\ InitLibraryIdle

peak_unchanged ==
    UNCHANGED <<pipeline_vars, demod_vars, call_vars, obs_vars, carrier_map_vars, bucket_vars, barrier_vars,
                param_vars>>

\* the weight of sample i under a setting
peak_probability ==
    /\ peak_fn = "none"
    /\ \E probability_pct \in Probabilities, i \in 0..(nb_fft - 1) :
          /\ peak_input' = [probability_pct |-> probability_pct, i |-> i, impulse |-> <<>>]
          /\ peak_result' = [index |-> i, value |-> probability(probability_pct, i),
                             weak |-> FALSE]
    /\ peak_fn' = "probability"
    /\ peak_unchanged

\* the peak search and the desync test of run_fine_time_sync
fine_time_peak ==
    /\ peak_fn = "none"
    /\ \E impulse \in PeakImpulses :
          /\ peak_input' = [probability_pct |-> fine_time_impulse_peak_distance_probability_pct,
                            i |-> 0, impulse |-> impulse]
          /\ peak_result' = [index |-> impulse_peak(impulse)[1],
                             value |-> impulse_peak(impulse)[2],
                             weak |-> is_weak_peak(impulse)]
    /\ peak_fn' = "fine_time_peak"
    /\ peak_unchanged

\* the peak search of run_coarse_frequency_synchronisation
coarse_frequency_peak ==
    /\ peak_fn = "none"
    /\ \E impulse \in PeakImpulses :
          /\ peak_input' = [probability_pct |-> 0, i |-> 0, impulse |-> impulse]
          /\ peak_result' = [index |-> carrier_offset_bin(impulse), value |-> 0,
                             weak |-> FALSE]
    /\ peak_fn' = "coarse_frequency_peak"
    /\ peak_unchanged

NextPeakSearch ==
    \/ peak_probability
    \/ fine_time_peak
    \/ coarse_frequency_peak

SpecPeakSearch == InitPeakSearch /\ [][NextPeakSearch]_vars

\* |i - N_cp|
PeakDistance(i) == Abs(i - nb_cyclic_prefix)

\* C24, as the code has it: the weight of sample i is
\* w(i) = 1 - (1 - p) * |i - N_cp| / N_symp for every i in [0, N_fft) and
\* every p in [0, 1] (here times 100 * N_symp); p = 1 gives w(i) = 1 for
\* all i, and a larger p never lowers a weight.
WeightDecaysByOneMinusProbability ==
    peak_fn = "probability" =>
        LET p == peak_input.probability_pct
            i == peak_input.i
        IN /\ peak_result.value =
                  100 * nb_symbol_period - (100 - p) * PeakDistance(i)
           /\ (p = 100 => peak_result.value = 100 * nb_symbol_period)
           /\ \A q \in Probabilities : q > p => probability(q, i) >= peak_result.value

\* the weight of a sample next to the expected peak under p = 0 is
\* 1 - 1/N_symp
WeightDecaysByOneMinusProbabilityReached ==
    /\ peak_fn = "probability"
    /\ peak_input.probability_pct = 0
    /\ peak_input.i = 0
    /\ peak_result.value = 100 * nb_symbol_period - 100

\* C24, as stated: w(i) = 1 - p * |i - N_cp| / N_symp, and p = 0 gives
\* w(i) = 1 for all i
WeightDecaysByProbability ==
    peak_fn = "probability" =>
        LET p == peak_input.probability_pct
            i == peak_input.i
        IN /\ peak_result.value = 100 * nb_symbol_period - p * PeakDistance(i)
           /\ (p = 0 => peak_result.value = 100 * nb_symbol_period)

\* the maxima of a non-empty function from indices to values
Maxima(f) == { j \in DOMAIN f : \A k \in DOMAIN f : f[k] <= f[j] }
\* the largest and the smallest member of a non-empty set of integers
Highest(S) == CHOOSE j \in S : \A k \in S : k <= j
Lowest(S) == CHOOSE j \in S : \A k \in S : j <= k

\* w(i) * fine_time_impulse[i], times 100 * N_symp, for each 0-based i
WeightedImpulse(impulse) ==
    [i \in 0..(Len(impulse) - 1) |->
        (100 * nb_symbol_period
         - (100 - fine_time_impulse_peak_distance_probability_pct) * PeakDistance(i))
        * impulse[i + 1]]
\* the impulse response over the window [-M, +M] around the DC bin
CoarseWindow(impulse) ==
    [k \in (-max_carrier_offset_bins)..max_carrier_offset_bins |->
        impulse[(nb_fft \div 2) + k + 1]]

\* C25, as the code has it: the desync test compares
\* h_peak = w(i*) * fine_time_impulse[i*] - mean(fine_time_impulse), the
\* WEIGHTED value at the peak i*, with the threshold; the frame is a desync
\* exactly when h_peak is below the threshold.
PeakHeightUsesWeightedValue ==
    peak_fn = "fine_time_peak" =>
        LET impulse == peak_input.impulse
            i_star == peak_result.index
        IN /\ i_star \in Maxima(WeightedImpulse(impulse))
           /\ peak_result.value = WeightedImpulse(impulse)[i_star]
           /\ peak_result.weak <=>
                 (WeightedImpulse(impulse)[i_star] * nb_fft
                     - SumSeq(impulse) * 100 * nb_symbol_period
                  < fine_time_impulse_peak_threshold_db * 100 * nb_symbol_period * nb_fft)

\* a peak of 44 dB one sample before the expected position: its height
\* over the mean is above 20 dB, its weighted height is not, and the frame
\* is a desync
PeakHeightUsesWeightedValueReached ==
    /\ peak_fn = "fine_time_peak"
    /\ peak_input.impulse = <<44, 0, 0>>
    /\ peak_result.index = 0
    /\ peak_result.weak
    /\ 44 * nb_fft - 44 >= fine_time_impulse_peak_threshold_db * nb_fft

\* C25, as stated: h_peak = fine_time_impulse[i*] - mean(fine_time_impulse),
\* the unweighted value at the peak
PeakHeightUsesUnweightedValue ==
    peak_fn = "fine_time_peak" =>
        LET impulse == peak_input.impulse
            i_star == peak_result.index
        IN peak_result.weak <=>
              (impulse[i_star + 1] * nb_fft - SumSeq(impulse)
               < fine_time_impulse_peak_threshold_db * nb_fft)

\* C26, as the code has it: when several indices share the maximum, the
\* coarse search over k in [-M, +M] and the fine search over i in [0, N_fft)
\* both select the HIGHEST such index, the last maximum of the scan.
PeakSearchKeepsLastMaximum ==
    /\ peak_fn = "coarse_frequency_peak" =>
          peak_result.index = Highest(Maxima(CoarseWindow(peak_input.impulse)))
    /\ peak_fn = "fine_time_peak" =>
          peak_result.index = Highest(Maxima(WeightedImpulse(peak_input.impulse)))

\* two equal maxima at k = -1 and k = 0: the coarse search answers 0
PeakSearchKeepsLastMaximumReached ==
    /\ peak_fn = "coarse_frequency_peak"
    /\ peak_input.impulse = <<60, 60, 0>>
    /\ Maxima(CoarseWindow(peak_input.impulse)) = {-1, 0}
    /\ peak_result.index = 0

\* C26, as stated: ties select the lowest index
PeakSearchKeepsFirstMaximum ==
    /\ peak_fn = "coarse_frequency_peak" =>
          peak_result.index = Lowest(Maxima(CoarseWindow(peak_input.impulse)))
    /\ peak_fn = "fine_time_peak" =>
          peak_result.index = Lowest(Maxima(WeightedImpulse(peak_input.impulse)))


\* the next step is run_coarse_frequency_synchronisation with the
\* correlation enabled
CoarseSyncStep ==
    /\ HandlerStep
    /\ state = "RunningCoarseFrequencySynchronisation"
    /\ coarse_frequency_is_enabled

\* C27: with coarse sync enabled and detected bin k*, coarse_frequency_offset
\* becomes exactly -k*/N_fft when the demodulator is not yet locked or when
\* |(-k*/N_fft) - coarse_frequency_offset| > 1.5/N_fft, and otherwise moves
\* by slow_update_beta times that difference; in both cases the lock flag is
\* set, update_fine_frequency_offset is applied with the negated step and
\* the state becomes RunningFineTimeSync.  The flag is false after the
\* construction and after a desync and is set by nothing else, so the first
\* coarse sync after either is exact.
CoarseOffsetUpdatedAsSpecified ==
    /\ [][CoarseSyncStep =>
             LET k_star == carrier_offset_bin(coarse_frequency_impulse_response_buffer')
                 target == (-k_star) * FftBinUnits
                 difference == target - coarse_frequency_offset
                 exact == \/ ~is_found_coarse_frequency_offset
                          \/ 2 * Abs(difference) > 3 * FftBinUnits
                 step == coarse_frequency_offset' - coarse_frequency_offset
             IN /\ exact => coarse_frequency_offset' = target
                /\ ~exact => step = TruncDiv(coarse_frequency_slow_update_beta_pct * difference,
                                             100)
                /\ is_found_coarse_frequency_offset'
                /\ fine_frequency_offset' = update_fine_frequency_offset(-step)
                /\ state' = "RunningFineTimeSync"]_vars
    /\ [][(~is_found_coarse_frequency_offset /\ is_found_coarse_frequency_offset')
             => CoarseSyncStep]_vars
    /\ [](state = "FindingNullPowerDip" => ~is_found_coarse_frequency_offset)

\* a locked demodulator at offset 0 detected bin +1, one bin away: the
\* offset moved by a tenth of the difference
CoarseOffsetUpdatedAsSpecifiedReached ==
    /\ op = "run_coarse_frequency_synchronisation"
    /\ state = "RunningFineTimeSync"
    /\ is_found_coarse_frequency_offset
    /\ total_frames_read = 1
    /\ carrier_offset_bin(coarse_frequency_impulse_response_buffer) = 1
    /\ coarse_frequency_offset = -((coarse_frequency_slow_update_beta_pct * FftBinUnits) \div 100)


\* the next step is run_fine_time_sync
FineTimeSyncStep == HandlerStep /\ state = "RunningFineTimeSync"

\* C28: after a successful fine time sync with detected peak i* and
\* d = i* - N_cp: fine_time_offset = d, data_time holds exactly
\* null_prs[start .. start + len] with start = max(N_null + d, 0) and
\* len = max(N_symp - d, 0), null_prs is empty and the state is
\* ReadingSymbols; a peak that passes the threshold always ends this way.
FineTimeSyncCopiesPrs ==
    /\ [][FineTimeSyncStep =>
             LET impulse == fine_time_impulse_response_buffer'
                 d == impulse_peak(impulse)[1] - nb_cyclic_prefix
                 start == Max(nb_null_period + d, 0)
                 len == Max(nb_symbol_period - d, 0)
             IN /\ ~is_weak_peak(impulse) => state' = "ReadingSymbols"
                /\ state' = "ReadingSymbols" =>
                      /\ ~is_weak_peak(impulse)
                      /\ fine_time_offset' = d
                      /\ data_time_buffer'.length = len
                      /\ LinearBucket_iter(data_time_buffer') =
                            SubSeq(LinearBucket_iter(null_prs_buffer), start + 1, start + len)
                      /\ null_prs_buffer'.length = 0]_vars
    /\ [](pc # "panicked")

\* a peak one sample before the expected position: the PRS starts one
\* sample inside the NULL period and is one sample longer
FineTimeSyncCopiesPrsReached ==
    /\ op = "run_fine_time_sync"
    /\ state = "ReadingSymbols"
    /\ fine_time_offset = -1
    /\ data_time_buffer.length = nb_symbol_period + 1
    /\ null_prs_buffer.length = 0


\* the next step is process_symbols
ProcessSymbolsStep == HandlerStep /\ state = "ProcessingSymbols"

\* C29: every execution of process_symbols ends with state =
\* ReadingNullAndPrs and null_prs holding exactly N_null samples, equal to
\* data_time[N_sym * N_symp .. N_sym * N_symp + N_null] as they were before
\* the frequency rotation, so that the next frame is acquired without
\* FindingNullPowerDip.
ProcessSymbolsKeepsNullSymbol ==
    [][ProcessSymbolsStep =>
          /\ state' = "ReadingNullAndPrs"
          /\ null_prs_buffer'.length = nb_null_period
          /\ LinearBucket_iter(null_prs_buffer') =
                SubSeq(LinearBucket_iter(data_time_buffer),
                       nb_symbols * nb_symbol_period + 1,
                       nb_symbols * nb_symbol_period + nb_null_period)]_vars

\* a frame has been processed and the rotation has changed the trailing
\* NULL samples in data_time, which null_prs holds as they were received
ProcessSymbolsKeepsNullSymbolReached ==
    /\ op = "process_symbols"
    /\ state = "ReadingNullAndPrs"
    /\ total_frames_read = 1
    /\ null_prs_buffer.length = nb_null_period
    /\ LinearBucket_iter(null_prs_buffer) #
          SubSeq(LinearBucket_iter(data_time_buffer),
                 nb_symbols * nb_symbol_period + 1,
                 nb_symbols * nb_symbol_period + nb_null_period)


\* C30: whenever the state is RunningCoarseFrequencySynchronisation or
\* RunningFineTimeSync, null_prs holds N_null + N_symp samples; whenever it
\* is ProcessingSymbols, data_time holds N_in_samples; ReadingNullAndPrs and
\* ReadingSymbols are left only by a step that leaves their buffer full.
ReadingStatesLeftWhenFull ==
    /\ [](state \in {"RunningCoarseFrequencySynchronisation", "RunningFineTimeSync"}
             => null_prs_buffer.length = nb_null_period + nb_symbol_period)
    /\ [](state = "ProcessingSymbols" => data_time_buffer.length = nb_input_samples)
    /\ [][(state = "ReadingNullAndPrs" /\ state' # state)
             => /\ state' = "RunningCoarseFrequencySynchronisation"
                /\ null_prs_buffer'.length = nb_null_period + nb_symbol_period]_vars
    /\ [][(state = "ReadingSymbols" /\ state' # state)
             => /\ state' = "ProcessingSymbols"
                /\ data_time_buffer'.length = nb_input_samples]_vars

\* read_symbols has consumed a buffer that did not fill data_time and the
\* state is still ReadingSymbols
ReadingStatesLeftWhenFullReached ==
    /\ op = "read_symbols"
    /\ state = "ReadingSymbols"
    /\ last_read > 0
    /\ data_time_buffer.length < nb_input_samples
    /\ data_time_buffer.length > nb_symbol_period + 1

(***************************************************************************)
(* The index ranges of the synchronisation handlers for the DAB modes      *)
(***************************************************************************)
\* the settings of coarse_frequency_max_range that are checked, in percent
MaxRangePcts == 0..95

coarse_search_bins_full_range(fft_size, max_range_pct) ==
    LET dc_bin == fft_size \div 2
        M == max_carrier_offset_bins_of(fft_size, 2 * max_range_pct)
    IN {offset + dc_bin : offset \in (-M)..M}

\* the fft bins read by the peak search of
\* run_coarse_frequency_synchronisation: offset + dc_bin for every offset
\* of -max_carrier_offset_bins..=max_carrier_offset_bins
coarse_search_bins(fft_size, max_range_pct) ==
    LET dc_bin == fft_size \div 2
        M == max_carrier_offset_bins_of(fft_size, max_range_pct)
    IN {offset + dc_bin : offset \in (-M)..M}

\* the slice of null_prs_buffer that run_fine_time_sync copies for a peak at
\* impulse_peak_index, and what data_time_buffer.consume reads of it
prs_partial_buffer_span(params, impulse_peak_index) ==
    LET prs_start_offset == impulse_peak_index - params.nb_cyclic_prefix
        prs_start_index == Max(params.nb_null_period + prs_start_offset, 0)
        prs_length == Max(params.nb_symbol_period - prs_start_offset, 0)
    IN [start |-> prs_start_index, length |-> prs_length,
        total_read |-> Min(prs_length, params.nb_input_samples)]

\* the inputs of the two handlers: a mode with a setting of the search range,
\* and a mode with a peak index of its impulse response
CoarseRangeInputs ==
    [transmission_mode : DabTransmissionModes, coarse_frequency_max_range_pct : MaxRangePcts]

FineTimeRangeInputs ==
    UNION {[transmission_mode : {mode},
            impulse_peak_index : 0..(get_dab_parameters(mode).nb_fft - 1)] :
           mode \in DabTransmissionModes}

InitIndexRanges ==
    /\ InitDemodulator(<<1, 0>>, TRUE, [j \in 1..StreamPeriod |-> <<1, 0>>])
    /\ InitCarrierMapIdle
    /\ InitBucketsIdle
    /\ InitBarrierIdle
    /\ InitPeakSearchIdle
    /\ InitPipelineIdle
    /\ \E input \in CoarseRangeInputs \cup FineTimeRangeInputs : InitParameters(input)

\* the peak search of run_coarse_frequency_synchronisation: the assertion on
\* the setting and the index of every bin it reads
coarse_search_range ==
    /\ param_fn = "none"
    /\ param_input \in CoarseRangeInputs
    /\ param_fn' = "run_coarse_frequency_synchronisation"
    /\ LET params == get_dab_ofdm_parameters(param_input.transmission_mode)
           bins == coarse_search_bins(params.nb_fft,
                                      param_input.coarse_frequency_max_range_pct)
       IN param_result' =
             [panicked |-> \/ params.panicked
                           \/ ~(param_input.coarse_frequency_max_range_pct < 100)
                           \/ \E fft_bin \in bins : ~(fft_bin >= 0 /\ fft_bin < params.nb_fft),
              bins |-> bins]
    /\ UNCHANGED param_input
    /\ param_unchanged

\* the copy of run_fine_time_sync: the slice of the full null_prs_buffer and
\* the consume into the emptied data_time_buffer
fine_time_range ==
    /\ param_fn = "none"
    /\ param_input \in FineTimeRangeInputs
    /\ param_fn' = "run_fine_time_sync"
    /\ LET params == get_dab_ofdm_parameters(param_input.transmission_mode)
           span == prs_partial_buffer_span(params, param_input.impulse_peak_index)
       IN param_result' =
             [panicked |-> \/ params.panicked
                           \/ ~SpanInRange(span.start, span.length,
                                           params.nb_null_period + params.nb_symbol_period),
              span |-> span]
    /\ UNCHANGED param_input
    /\ param_unchanged

NextIndexRanges ==
    \/ coarse_search_range
    \/ fine_time_range

SpecIndexRanges == InitIndexRanges /\ [][NextIndexRanges]_vars

\* C31: for the four DAB modes and coarse_frequency_max_range in [0, 0.95]
\* no index is out of range and no assertion fails: the coarse search reads
\* the bins N_fft/2 + k for k in [-M, M], all of them in [0, N_fft); for
\* every peak index in [0, N_fft) the slice of null_prs copied by the fine
\* time synchronisation ends at exactly N_null + N_symp, lies within
\* null_prs, and its length, between 1 and N_symp + N_cp, fits into
\* data_time.
IndexRangesWithinBuffers ==
    LET params == get_dab_ofdm_parameters(param_input.transmission_mode)
    IN /\ param_fn = "run_coarse_frequency_synchronisation" =>
            LET M == max_carrier_offset_bins_of(params.nb_fft,
                                                param_input.coarse_frequency_max_range_pct)
            IN /\ ~param_result.panicked
               /\ param_result.bins = {(params.nb_fft \div 2) + k : k \in (-M)..M}
               /\ \A fft_bin \in param_result.bins : fft_bin \in 0..(params.nb_fft - 1)
       /\ param_fn = "run_fine_time_sync" =>
            /\ ~param_result.panicked
            /\ param_result.span.start >= 0
            /\ param_result.span.start + param_result.span.length =
                  params.nb_null_period + params.nb_symbol_period
            /\ param_result.span.length >= 1
            /\ param_result.span.length <= params.nb_symbol_period + params.nb_cyclic_prefix
            /\ param_result.span.total_read = param_result.span.length

\* a peak in the first bin of mode I: the longest slice, N_symp + N_cp samples
IndexRangesWithinBuffersReached ==
    /\ param_fn = "run_fine_time_sync"
    /\ param_input.transmission_mode = "I"
    /\ param_input.impulse_peak_index = 0
    /\ param_result.span.start = 2656 - 504
    /\ param_result.span.length = 2552 + 504

(***************************************************************************)
(* The samples of one frame                                                *)
(***************************************************************************)
\* a frame cycle that process_symbols started by seeding null_prs_buffer
\* with the NULL symbol, and that has not lost synchronisation
SeededFrameCycle == frame_consumed >= 0

\* C32: a frame cycle that starts in ReadingNullAndPrs with null_prs seeded
\* by process_symbols and reaches ProcessingSymbols without a desync has
\* consumed exactly N_in_samples + fine_time_offset input samples, with the
\* offset found in that cycle; with an offset of 0 it has consumed exactly
\* N_in_samples.
FrameConsumesInputSamplesPlusOffset ==
    /\ [][(op' = "process_symbols" /\ pc = "loop") =>
             /\ state' = "ReadingNullAndPrs"
             /\ null_prs_buffer'.length = nb_null_period
             /\ frame_consumed' = 0]_vars
    /\ []((SeededFrameCycle /\ state = "ProcessingSymbols") =>
             /\ frame_consumed = nb_input_samples + fine_time_offset
             /\ fine_time_offset = 0 => frame_consumed = nb_input_samples)

\* a seeded frame cycle that found the PRS one sample late and has all its
\* samples
FrameConsumesInputSamplesPlusOffsetReached ==
    /\ SeededFrameCycle
    /\ state = "ProcessingSymbols"
    /\ total_frames_read = 1
    /\ total_frames_desync = 0
    /\ fine_time_offset = 1
    /\ frame_consumed = nb_input_samples + 1

(***************************************************************************)
(* The search for the NULL symbol without a signal power average           *)
(***************************************************************************)
\* find_null_power_dip is dispatched right after run_fine_time_sync lost
\* synchronisation in the same process call
FindNullAfterDesync == FindNullStep /\ op = "run_fine_time_sync"

\* the handler dispatched after a desync keeps the state, detects nothing
\* and returns the whole rest of the buffer of the call
NoNullDetectedAfterDesync ==
    [][FindNullAfterDesync =>
          /\ signal_l1_average = 0
          /\ state' = "FindingNullPowerDip"
          /\ ~is_null_start_found'
          /\ last_read' = Len(curr_buf)
          /\ pc' = "return"]_vars

\* no handler dispatched with a signal power average of 0 detects a NULL
NoNullDetectedWhenAverageIsZero ==
    [][(FindNullStep /\ signal_l1_average = 0) => state' = "FindingNullPowerDip"]_vars

\* C33: after a desync inside a process call the demodulator stays in
\* FindingNullPowerDip and consumes the whole remainder of the buffer of that
\* call without detecting a NULL, signal_l1_average being 0 until the next
\* process call updates it; likewise no NULL is detected in any call in
\* which signal_l1_average is 0 when the handler is dispatched.
NoNullDetectedWithoutSignalPower ==
    /\ NoNullDetectedAfterDesync
    /\ NoNullDetectedWhenAverageIsZero

\* a NULL has just been detected with a signal power average of 0: the start
\* of the NULL was found in an earlier call, before the average decayed to 0
NullDetectedWithZeroAverage ==
    /\ op = "find_null_power_dip"
    /\ last_read > 0
    /\ state = "ReadingNullAndPrs"
    /\ signal_l1_average = 0

(***************************************************************************)
(* The flags of the NULL search between handlers                           *)
(***************************************************************************)
\* C34: between handlers is_null_end_found is false, and is_null_start_found
\* can be true only while the state is FindingNullPowerDip; so both flags
\* are false whenever run_fine_time_sync is about to run reset_from_desync.
NullFlagsClearOutsideSearch ==
    /\ ~is_null_end_found
    /\ is_null_start_found => state = "FindingNullPowerDip"
    /\ (HandlerStep /\ state = "RunningFineTimeSync") =>
          (~is_null_start_found /\ ~is_null_end_found)

\* reset_from_desync has just run in a demodulator that had found a NULL
\* and read a frame before
NullFlagsClearOutsideSearchReached ==
    /\ op = "run_fine_time_sync"
    /\ state = "FindingNullPowerDip"
    /\ total_frames_desync = 1
    /\ total_frames_read = 1
    /\ ~is_null_start_found
    /\ ~is_null_end_found

(***************************************************************************)
(* The signal power average over buffers of several blocks                 *)
(***************************************************************************)
\* the number of complete blocks of the longest buffer
MaxBlocks == 3
\* the amplitude of the samples of a block
BlockLevels == {0, 1, 2}

\* the buffers of a process call: up to MaxBlocks blocks, each at one
\* amplitude, with or without one more sample that begins a partial block
SignalPowerBuffers ==
    UNION {{[j \in 1..(null_power_total_samples * k + tail) |->
                IF j <= null_power_total_samples * k
                THEN <<levels[((j - 1) \div null_power_total_samples) + 1], 0>>
                ELSE <<2, 0>>] :
            levels \in [1..k -> BlockLevels], tail \in {0, 1}} :
           k \in 0..MaxBlocks}

InitSignalPower ==
    /\ InitDemodulator(<<1, 0>>, TRUE, [j \in 1..StreamPeriod |-> <<1, 0>>])
    /\ InitLibraryIdle

\* a process call on one of the buffers
process_blocks == \E buf \in SignalPowerBuffers : process_buffer(buf)

NextSignalPower ==
    \/ process_blocks
    \/ find_null_power_dip
    \/ process_return

SpecSignalPower == InitSignalPower /\ [][NextSignalPower]_vars

\* the 0-based indices of the complete blocks of buf that are multiples of
\* the decimation factor
MeasuredBlocks(buf) ==
    {j \in 0..((Len(buf) \div null_power_total_samples) - 1) :
        j % null_power_decimation_factor = 0}

\* the mean of the L1 averages of the measured blocks
MeasuredMean(buf) ==
    SumSeq([k \in 1..(Len(buf) \div null_power_total_samples) |->
               IF (k - 1) \in MeasuredBlocks(buf)
               THEN calculate_l1_average(Slice(buf, (k - 1) * null_power_total_samples,
                                               null_power_total_samples))
               ELSE 0])
    \div Cardinality(MeasuredBlocks(buf))

\* C35: of the buffer of a process call only the complete blocks of
\* null_power_total_samples whose 0-based index is a multiple of
\* null_power_decimation_factor are measured; with K such blocks and m the
\* mean of their L1 averages signal_l1_average becomes
\* beta * m + (1 - beta) * signal_l1_average if K > 0 and is unchanged if
\* K = 0; a trailing partial block never contributes; the update runs once
\* per process call, before any handler.
SignalPowerAverageAsSpecified ==
    /\ [][(pc = "idle" /\ op' = "process") =>
             LET buf == curr_buf'
                 K == Cardinality(MeasuredBlocks(buf))
             IN /\ K > 0 =>
                      signal_l1_average' =
                         (null_power_update_beta_num * MeasuredMean(buf)
                          + (null_power_update_beta_den - null_power_update_beta_num)
                            * signal_l1_average)
                         \div null_power_update_beta_den
                /\ K = 0 => signal_l1_average' = signal_l1_average
                /\ \A sample \in {<<0, 0>>, <<1, 0>>} :
                      Len(buf) % null_power_total_samples = 0 =>
                         update_signal_power_average(Append(buf, sample)) =
                            signal_l1_average']_vars
    /\ [][pc # "idle" => signal_l1_average' = signal_l1_average]_vars

\* the first call, on three blocks of amplitudes 2, 0 and 1 and one more
\* sample: blocks 0 and 2 are measured, m = 1.5 and the average becomes 0.75
SignalPowerAverageAsSpecifiedReached ==
    /\ op = "process"
    /\ curr_buf = <<<<2, 0>>, <<2, 0>>, <<0, 0>>, <<0, 0>>, <<1, 0>>, <<1, 0>>, <<2, 0>>>>
    /\ signal_l1_average = 3

(***************************************************************************)
(* calculate_dqpsk and calculate_soft_bits on spectra with unused bins     *)
(***************************************************************************)
\* the FFT size of the spectra, and half the number of their data carriers
SpectrumFft == 6
MaxHalfCarriers == 2
\* the number of data carriers
SpectrumCarriers == 2 * MaxHalfCarriers
\* the number of spectra
MaxSpectra == 6

\* integer-valued spectra of SpectrumFft bins
Spectra ==
    { [j \in 1..SpectrumFft |-> <<((j * a) % 5) - 2, ((j * j + a) % 3) - 1>>] :
      a \in 1..MaxSpectra }
\* y before the call: values that no product of two bins takes
StaleDqpsk == [d \in 1..SpectrumCarriers |-> <<99, 99>>]
\* the carrier map of the soft bits: the data carriers in reverse order
SpectrumCarrierMap == [i \in 1..SpectrumCarriers |-> SpectrumCarriers - i]
\* values written over a bin of a spectrum
BinValues == {<<0, 0>>, <<3, -3>>, <<-2, 1>>}

\* spectrum x multiplied by j^q
rotate_spectrum(x, q) == [j \in 1..Len(x) |-> CMul(x[j], QuarterTurn(q))]

\* the arguments: two spectra and the number of quarter turns of the rotation
DqpskInputs == [x0 : Spectra, x1 : Spectra, quarter_turns : 0..3]

InitDqpsk ==
    /\ InitDemodulator(<<1, 0>>, TRUE, [j \in 1..StreamPeriod |-> <<1, 0>>])
    /\ InitCarrierMapIdle
    /\ InitBucketsIdle
    /\ InitBarrierIdle
    /\ InitPeakSearchIdle
    /\ InitPipelineIdle
    /\ \E input \in DqpskInputs : InitParameters(input)

\* calculate_dqpsk on x0, x1 and calculate_soft_bits on its result
dqpsk_and_soft_bits(x0, x1) ==
    LET y == calculate_dqpsk_into(SpectrumFft, SpectrumCarriers, x0, x1, StaleDqpsk)
    IN [panicked |-> ~calculate_dqpsk_asserts(SpectrumFft, SpectrumCarriers, x0, x1, StaleDqpsk),
        writes |-> dqpsk_writes(SpectrumFft, SpectrumCarriers),
        dqpsk |-> y,
        soft_bits |-> calculate_soft_bits(SpectrumCarrierMap, y)]

\* the demodulation of two consecutive symbols
dqpsk_demodulate ==
    /\ param_fn = "none"
    /\ param_input \in DqpskInputs
    /\ param_input.quarter_turns = 0
    /\ param_fn' = "calculate_dqpsk"
    /\ param_result' = dqpsk_and_soft_bits(param_input.x0, param_input.x1)
    /\ UNCHANGED param_input
    /\ param_unchanged

\* the demodulation of the two symbols after a rotation of both spectra
dqpsk_demodulate_rotated ==
    /\ param_fn = "none"
    /\ param_input \in DqpskInputs
    /\ param_fn' = "calculate_dqpsk rotated"
    /\ param_result' =
          dqpsk_and_soft_bits(rotate_spectrum(param_input.x0, param_input.quarter_turns),
                              rotate_spectrum(param_input.x1, param_input.quarter_turns))
    /\ UNCHANGED param_input
    /\ param_unchanged

NextDqpsk ==
    \/ dqpsk_demodulate
    \/ dqpsk_demodulate_rotated

SpecDqpsk == InitDqpsk /\ [][NextDqpsk]_vars

\* the bins of a spectrum that the claim names as read
DataBins ==
    LET H == SpectrumCarriers \div 2
    IN ((SpectrumFft - H)..(SpectrumFft - 1)) \cup (1..H)

\* C36: calculate_dqpsk of x0, x1 (N_fft bins) into y (N_data values,
\* H = N_data / 2) writes every index of y exactly once, with
\* y[i] = x0[N_fft - H + i] * conj(x1[N_fft - H + i]) and
\* y[i + H] = x0[1 + i] * conj(x1[1 + i]) for i in [0, H); the bins read are
\* exactly N_fft - H .. N_fft - 1 and 1 .. H; the DC bin 0 and the bins
\* H + 1 .. N_fft - H - 1 never influence the result.
DqpskReadsDataBinsOnly ==
    param_fn = "calculate_dqpsk" =>
       LET H == SpectrumCarriers \div 2
           x0 == param_input.x0
           x1 == param_input.x1
           y == param_result.dqpsk
           writes == param_result.writes
       IN /\ ~param_result.panicked
          /\ \A d \in 0..(SpectrumCarriers - 1) :
                Cardinality({k \in 1..Len(writes) : writes[k].dqpsk_index = d}) = 1
          /\ \A k \in 1..Len(writes) : writes[k].dqpsk_index \in 0..(SpectrumCarriers - 1)
          /\ \A i \in 0..(H - 1) :
                /\ y[i + 1] = CMul(x0[SpectrumFft - H + i + 1],
                                   CConj(x1[SpectrumFft - H + i + 1]))
                /\ y[i + H + 1] = CMul(x0[1 + i + 1], CConj(x1[1 + i + 1]))
          /\ {writes[k].fft_index : k \in 1..Len(writes)} = DataBins
          /\ \A bin \in (0..(SpectrumFft - 1)) \ DataBins :
                /\ bin \in {0} \cup ((H + 1)..(SpectrumFft - H - 1))
                /\ \A value0 \in BinValues, value1 \in BinValues :
                      calculate_dqpsk_into(SpectrumFft, SpectrumCarriers,
                                           [x0 EXCEPT ![bin + 1] = value0],
                                           [x1 EXCEPT ![bin + 1] = value1], StaleDqpsk) = y

\* two different spectra demodulated: no stale value is left in y, and the
\* unused bins 0 and 3 of both spectra are not zero
DqpskReadsDataBinsOnlyReached ==
    /\ param_fn = "calculate_dqpsk"
    /\ param_input.x0 # param_input.x1
    /\ \A d \in 1..SpectrumCarriers : param_result.dqpsk[d] # StaleDqpsk[d]
    /\ \E d \in 1..SpectrumCarriers : param_result.dqpsk[d] # <<0, 0>>
    /\ param_input.x0[1] # <<0, 0>>
    /\ param_input.x0[4] # <<0, 0>>
    /\ param_input.x1[1] # <<0, 0>>
    /\ param_input.x1[4] # <<0, 0>>

\* C37: the DQPSK values and the soft bits are invariant to a rotation of
\* both spectra by the same phase, checked over the quarter turns of the
\* integer-valued spectra: every DQPSK value and every soft bit is unchanged.
DqpskInvariantToRotation ==
    param_fn = "calculate_dqpsk rotated" =>
       LET unrotated == dqpsk_and_soft_bits(param_input.x0, param_input.x1)
       IN /\ ~param_result.panicked
          /\ param_result.dqpsk = unrotated.dqpsk
          /\ param_result.soft_bits = unrotated.soft_bits

\* a rotation by three quarter turns of two different spectra whose soft bits
\* are not all zero
DqpskInvariantToRotationReached ==
    /\ param_fn = "calculate_dqpsk rotated"
    /\ param_input.quarter_turns = 3
    /\ param_input.x0 # param_input.x1
    /\ rotate_spectrum(param_input.x0, 3) # param_input.x0
    /\ \E b \in 1..(2 * SpectrumCarriers) : param_result.soft_bits[b] \notin {0, 127, -127}
    /\ \E b \in 1..(2 * SpectrumCarriers) : param_result.soft_bits[b] = 127

(***************************************************************************)
(* The value of a closed barrier                                           *)
(***************************************************************************)
\* C40: under every interleaving of concurrent set and close calls the
\* stored value never changes after the barrier has become closed, no set
\* call that modifies the value after the close returns Ok, and the closed
\* flag never goes back from true to false.
ClosedBarrierKeepsValue ==
    /\ [][is_closed => barrier_data' = barrier_data]_vars
    /\ [](\A t \in Threads :
             (thread_call[t].name = "set" /\ thread_call[t].changed_closed) =>
                thread_call[t].result # "Ok")
    /\ [][is_closed => is_closed']_vars

\* a set that was called before the close has changed the value of the
\* closed barrier and returned Ok, after the close returned Ok
SetChangedClosedBarrier ==
    \E s, c \in Threads :
       /\ thread_call[c].name = "close" /\ thread_call[c].result = "Ok"
       /\ thread_call[s].name = "set" /\ ~thread_call[s].closed_at_entry
       /\ thread_call[s].changed_closed
       /\ thread_call[s].result = "Ok"
       /\ is_closed
       /\ barrier_data = thread_call[s].arg

(***************************************************************************)
(* ofdm_demod (main.rs): the reader thread hands each chunk of the input   *)
(* to process, whose callback copies every completed frame into the        *)
(* intermediate buffer and sets the barrier to true; the writer thread     *)
(* waits for true, writes the intermediate buffer to the output and sets   *)
(* the barrier to false.  Both close the barrier when they leave their     *)
(* loop.  The calls of the barrier are made of the steps of Barrier above. *)
(* A chunk is given by the number of frames that its process call          *)
(* completes; the output is the sequence of the frames written.  Reads of  *)
(* the input and writes of the output do not fail.                         *)
(***************************************************************************)
\* the chunks of the longest input, and the frames of the longest chunk
MaxChunks == 2
MaxFramesPerCall == 2

reader_thread == 1
writer_thread == 2

\* the inputs
InputFiles == UNION {[1..n -> 0..MaxFramesPerCall] : n \in 0..MaxChunks}

InitPipelineThreads ==
    /\ InitDemodulator(<<1, 0>>, TRUE, [j \in 1..StreamPeriod |-> <<1, 0>>])
    /\ InitCarrierMapIdle
    /\ InitBucketsIdle
    /\ InitBarrierIdle
    /\ InitParametersIdle
    /\ InitPeakSearchIdle
    /\ \E chunks \in InputFiles : InitPipeline(chunks)

pipeline_unchanged ==
    UNCHANGED <<demod_vars, call_vars, obs_vars, carrier_map_vars, bucket_vars, param_vars,
                peak_vars>>

\* the thread goes to position p
pipeline_goto(t, p) == pipeline_pc' = [pipeline_pc EXCEPT ![t] = p]

\* the thread calls a method of the barrier
pipeline_call(t, name, arg) ==
    /\ thread_pc[t] = "idle"
    /\ thread_program[t] = <<>>
    /\ thread_program' = [thread_program EXCEPT ![t] = <<[name |-> name, arg |-> arg]>>]
    /\ UNCHANGED <<barrier_data, data_lock, is_closed, is_closed_lock, on_change,
                   thread_pc, thread_call, thread_results>>

\* the call of the thread has returned
pipeline_returned(t) ==
    /\ thread_pc[t] = "idle"
    /\ thread_program[t] = <<>>
    /\ thread_call[t].result \in {"Ok", "Closed"}

\* reader: input_file.read, then barrier.wait(|is_full| !is_full), or the
\* end of the loop at the end of the input and barrier.close()
reader_read(t) ==
    /\ t = reader_thread
    /\ pipeline_pc[t] = "start"
    /\ IF input_chunks = <<>>
       THEN /\ pipeline_call(t, "close", FALSE)
            /\ pipeline_goto(t, "close")
            /\ UNCHANGED <<input_chunks, frames_pending>>
       ELSE /\ frames_pending' = Head(input_chunks)
            /\ input_chunks' = Tail(input_chunks)
            /\ pipeline_call(t, "wait", FALSE)
            /\ pipeline_goto(t, "wait_not_full")
    /\ UNCHANGED <<frames_delivered, frames_full, intermediate_buffer,
                   intermediate_buffer_lock, output_file>>
    /\ pipeline_unchanged

\* reader: the wait has returned; on Err the loop ends, else process begins
reader_wait_returned(t) ==
    /\ t = reader_thread
    /\ pipeline_pc[t] = "wait_not_full"
    /\ pipeline_returned(t)
    /\ IF thread_call[t].result = "Closed"
       THEN /\ pipeline_call(t, "close", FALSE)
            /\ pipeline_goto(t, "close")
            /\ frames_pending' = 0
       ELSE /\ pipeline_goto(t, "process")
            /\ UNCHANGED frames_pending
            /\ UNCHANGED barrier_vars
    /\ UNCHANGED <<input_chunks, frames_delivered, frames_full, intermediate_buffer,
                   intermediate_buffer_lock, output_file>>
    /\ pipeline_unchanged

\* reader, inside process: the callback of the next completed frame takes
\* the write lock of the intermediate buffer, copies the frame and calls
\* barrier.set(true); process returns when no frame is left
reader_process(t) ==
    /\ t = reader_thread
    /\ pipeline_pc[t] = "process"
    /\ IF frames_pending = 0
       THEN /\ pipeline_goto(t, "start")
            /\ UNCHANGED <<frames_delivered, intermediate_buffer, intermediate_buffer_lock>>
            /\ UNCHANGED barrier_vars
       ELSE /\ intermediate_buffer_lock = NoThread
            /\ intermediate_buffer_lock' = t
            /\ intermediate_buffer' = frames_delivered + 1
            /\ frames_delivered' = frames_delivered + 1
            /\ pipeline_call(t, "set", TRUE)
            /\ pipeline_goto(t, "callback_set")
    /\ UNCHANGED <<input_chunks, frames_pending, frames_full, output_file>>
    /\ pipeline_unchanged

\* reader: the set of the callback has returned (an Err is only logged) and
\* the callback ends, which drops the write lock
reader_callback_returned(t) ==
    /\ t = reader_thread
    /\ pipeline_pc[t] = "callback_set"
    /\ pipeline_returned(t)
    /\ frames_full' = IF thread_call[t].result = "Ok"
                      THEN frames_full \cup {intermediate_buffer} ELSE frames_full
    /\ intermediate_buffer_lock' = NoThread
    /\ frames_pending' = frames_pending - 1
    /\ pipeline_goto(t, "process")
    /\ UNCHANGED <<input_chunks, frames_delivered, intermediate_buffer, output_file>>
    /\ UNCHANGED barrier_vars
    /\ pipeline_unchanged

\* writer: barrier.wait(|is_full| *is_full)
writer_wait(t) ==
    /\ t = writer_thread
    /\ pipeline_pc[t] = "start"
    /\ pipeline_call(t, "wait", TRUE)
    /\ pipeline_goto(t, "wait_full")
    /\ UNCHANGED <<input_chunks, frames_pending, frames_delivered, frames_full,
                   intermediate_buffer, intermediate_buffer_lock, output_file>>
    /\ pipeline_unchanged

\* writer: the wait has returned; on Err the loop ends
writer_wait_returned(t) ==
    /\ t = writer_thread
    /\ pipeline_pc[t] = "wait_full"
    /\ pipeline_returned(t)
    /\ IF thread_call[t].result = "Closed"
       THEN /\ pipeline_call(t, "close", FALSE)
            /\ pipeline_goto(t, "close")
       ELSE /\ pipeline_goto(t, "write")
            /\ UNCHANGED barrier_vars
    /\ UNCHANGED <<input_chunks, frames_pending, frames_delivered, frames_full,
                   intermediate_buffer, intermediate_buffer_lock, output_file>>
    /\ pipeline_unchanged

\* writer: takes the read lock of the intermediate buffer, writes the buffer
\* to the output and calls barrier.set(false)
writer_write(t) ==
    /\ t = writer_thread
    /\ pipeline_pc[t] = "write"
    /\ intermediate_buffer_lock = NoThread
    /\ intermediate_buffer_lock' = t
    /\ output_file' = Append(output_file, intermediate_buffer)
    /\ pipeline_call(t, "set", FALSE)
    /\ pipeline_goto(t, "release")
    /\ UNCHANGED <<input_chunks, frames_pending, frames_delivered, frames_full,
                   intermediate_buffer>>
    /\ pipeline_unchanged

\* writer: the set has returned; the iteration ends, which drops the read
\* lock; on Err the loop ends
writer_set_returned(t) ==
    /\ t = writer_thread
    /\ pipeline_pc[t] = "release"
    /\ pipeline_returned(t)
    /\ intermediate_buffer_lock' = NoThread
    /\ IF thread_call[t].result = "Closed"
       THEN /\ pipeline_call(t, "close", FALSE)
            /\ pipeline_goto(t, "close")
       ELSE /\ pipeline_goto(t, "start")
            /\ UNCHANGED barrier_vars
    /\ UNCHANGED <<input_chunks, frames_pending, frames_delivered, frames_full,
                   intermediate_buffer, output_file>>
    /\ pipeline_unchanged

\* reader or writer: barrier.close() has returned (an Err is only logged)
\* and the thread ends
pipeline_thread_exit(t) ==
    /\ pipeline_pc[t] = "close"
    /\ pipeline_returned(t)
    /\ pipeline_goto(t, "done")
    /\ UNCHANGED <<input_chunks, frames_pending, frames_delivered, frames_full,
                   intermediate_buffer, intermediate_buffer_lock, output_file>>
    /\ UNCHANGED barrier_vars
    /\ pipeline_unchanged

\* a step of the reader thread outside the barrier
reader_step(t) ==
    \/ reader_read(t)
    \/ reader_wait_returned(t)
    \/ reader_process(t)
    \/ reader_callback_returned(t)

\* a step of the writer thread outside the barrier
writer_step(t) ==
    \/ writer_wait(t)
    \/ writer_wait_returned(t)
    \/ writer_write(t)
    \/ writer_set_returned(t)

\* a step the scheduler owes to a runnable thread of the pipeline
pipeline_step(t) ==
    \/ reader_step(t)
    \/ writer_step(t)
    \/ pipeline_thread_exit(t)
    \/ thread_step(t)

NextPipeline == \E t \in Threads : pipeline_step(t) \/ barrier_spurious_wakeup(t)

\* every runnable thread is scheduled eventually, and a thread that finds
\* the mutex free again and again gets it eventually; a wake-up without
\* notification is never owed
SpecPipeline ==
    /\ InitPipelineThreads
    /\ [][NextPipeline]_vars
    /\ \A t \in Threads : WF_vars(pipeline_step(t)) /\ SF_vars(mutex_lock(t))

\* the frames written to the output
WrittenFrames == {output_file[k] : k \in 1..Len(output_file)}

\* the intermediate buffer is overwritten only while the barrier is not full
BufferKeptWhileFull ==
    [][intermediate_buffer' # intermediate_buffer => ~barrier_data]_vars

\* C38: for every chunk size the callback never overwrites the intermediate
\* buffer while the flag of the barrier is full: every frame delivered is
\* written to the output exactly once, in order, before the next frame
\* replaces it, also when one process call completes more than one frame.
FramesWrittenOnceInOrder ==
    /\ BufferKeptWhileFull
    /\ [][intermediate_buffer' # intermediate_buffer =>
             (intermediate_buffer = 0 \/ intermediate_buffer \in WrittenFrames)]_vars
    /\ [](\A k \in 1..Len(output_file) : output_file[k] = k)

\* both threads have ended after a chunk of two frames, both handed to the
\* callback: the first frame was replaced before it was written and the
\* output holds the second frame only
FrameLostInsideProcessCall ==
    /\ pipeline_pc[reader_thread] = "done"
    /\ pipeline_pc[writer_thread] = "done"
    /\ frames_delivered = 2
    /\ input_chunks = <<>>
    /\ output_file = <<2>>

\* C39: at the end of the input every frame for which the callback set the
\* flag to full is written by the writer thread before it exits, and the
\* reader thread and the writer thread both terminate eventually, under
\* every interleaving of the close of the reader with the wait of the
\* writer.
FramesWrittenBeforeExit ==
    /\ [](pipeline_pc[writer_thread] = "done" => frames_full \subseteq WrittenFrames)
    /\ <>(pipeline_pc[reader_thread] = "done")
    /\ <>(pipeline_pc[writer_thread] = "done")

\* the input was one chunk of one frame; the callback set the flag to full,
\* the reader closed the barrier at the end of the input, and the writer
\* has ended without writing the frame
LastFrameNotWritten ==
    /\ pipeline_pc[reader_thread] = "done"
    /\ pipeline_pc[writer_thread] = "done"
    /\ frames_delivered = 1
    /\ frames_full = {1}
    /\ barrier_data
    /\ output_file = <<>>

====
